---------------------------- MODULE Spec2Model ----------------------------
(***************************************************************************)
(* octomailer: a Cloudflare Email Worker that decodes one raw e-mail and  *)
(* publishes it as a GitHub issue or as a Discord embed.                   *)
(*                                                                         *)
(* Text is modelled character by character: a string is a sequence of     *)
(* one-character strings, so that split, trim, includes, startsWith and    *)
(* the regular expressions of the source are computed, not assumed.        *)
(***************************************************************************)
EXTENDS Integers, Sequences, FiniteSets, TLC

(***************************************************************************)
(* String primitives (JavaScript String methods used by src/index.ts)      *)
(***************************************************************************)

\* The white space of String.prototype.trim and of \s that occurs in mail text.
WS == {" ", "\t", "\n", "\r"}

\* The line terminators of JavaScript regular expressions: `.` does not match
\* them, and with the m flag ^ and $ match next to them.
LT == {"\n", "\r"}

HexLower == {"0","1","2","3","4","5","6","7","8","9","a","b","c","d","e","f"}

Upper == <<"A","B","C","D","E","F","G","H","I","J","K","L","M",
           "N","O","P","Q","R","S","T","U","V","W","X","Y","Z">>
Lower == <<"a","b","c","d","e","f","g","h","i","j","k","l","m",
           "n","o","p","q","r","s","t","u","v","w","x","y","z">>

Alnum == {Upper[k] : k \in 1..26} \cup {Lower[k] : k \in 1..26}
           \cup {"0","1","2","3","4","5","6","7","8","9"}

UpperSet == {Upper[k] : k \in 1..26}

LowerOf == [c \in UpperSet |-> Lower[CHOOSE k \in 1..26 : Upper[k] = c]]

\* String.prototype.toLowerCase on one character.
LowerChar(c) == IF c \in UpperSet THEN LowerOf[c] ELSE c

ToLowerCase(s) == [k \in 1..Len(s) |-> LowerChar(s[k])]

\* s.trim() === ''
IsBlank(s) == \A k \in 1..Len(s) : s[k] \in WS

\* String.prototype.trim
Trim(s) ==
    LET keep == {k \in 1..Len(s) : s[k] \notin WS}
    IN  IF keep = {} THEN <<>>
        ELSE SubSeq(s, CHOOSE k \in keep : \A m \in keep : k <= m,
                       CHOOSE k \in keep : \A m \in keep : k >= m)

\* Whether p occurs in s at 1-based position i.
StartsWithAt(s, p, i) ==
    /\ i >= 1
    /\ i + Len(p) - 1 <= Len(s)
    /\ \A k \in 1..Len(p) : s[i + k - 1] = p[k]

\* The same, ignoring letter case (the i flag).
StartsWithAtI(s, p, i) ==
    /\ i >= 1
    /\ i + Len(p) - 1 <= Len(s)
    /\ \A k \in 1..Len(p) : LowerChar(s[i + k - 1]) = LowerChar(p[k])

\* String.prototype.startsWith
StartsWith(s, p) == StartsWithAt(s, p, 1)

\* String.prototype.includes
Includes(s, p) == \E i \in 1..(Len(s) + 1) : StartsWithAt(s, p, i)

\* String.prototype.indexOf, 1-based; 0 when p does not occur at or after from.
IndexOfFrom(s, p, from) ==
    LET hits == {i \in from..(Len(s) + 1) : StartsWithAt(s, p, i)}
    IN  IF hits = {} THEN 0 ELSE CHOOSE i \in hits : \A j \in hits : i <= j

\* s.split('\n')
RECURSIVE SplitLines(_)
SplitLines(s) ==
    LET k == IndexOfFrom(s, <<"\n">>, 1)
    IN  IF k = 0 THEN <<s>>
        ELSE <<SubSeq(s, 1, k - 1)>> \o SplitLines(SubSeq(s, k + 1, Len(s)))

\* lines.join('\n')
RECURSIVE JoinLines(_)
JoinLines(ls) ==
    IF ls = <<>> THEN <<>>
    ELSE IF Len(ls) = 1 THEN ls[1]
    ELSE ls[1] \o <<"\n">> \o JoinLines(Tail(ls))

\* array.filter(line => line.trim() !== '')
RECURSIVE NonBlankLines(_)
NonBlankLines(ls) ==
    IF ls = <<>> THEN <<>>
    ELSE IF IsBlank(ls[1]) THEN NonBlankLines(Tail(ls))
    ELSE <<ls[1]>> \o NonBlankLines(Tail(ls))

\* The least element of a non-empty set of positions.
Least(S) == CHOOSE k \in S : \A m \in S : k <= m

\* The end (exclusive) of the longest run of characters of set cs starting at i.
RunEnd(s, i, cs) ==
    LET stop == {j \in i..Len(s) : s[j] \notin cs}
    IN  IF stop # {} THEN Least(stop)
        ELSE IF i > Len(s) THEN i ELSE Len(s) + 1

\* The end (exclusive) of the longest run of characters outside cs starting at i.
RunEndNot(s, i, cs) ==
    LET stop == {j \in i..Len(s) : s[j] \in cs}
    IN  IF stop # {} THEN Least(stop)
        ELSE IF i > Len(s) THEN i ELSE Len(s) + 1

\* JavaScript's undefined / null where a string may stand: a one-element
\* sequence that is no character string (every character has length one).
Undefined == <<"undefined">>

\* The null findGitHubUserByEmail returns for no match.
Null == <<"null">>

\* JavaScript truthiness of a string, undefined or null.
Truthy(v) == v # Undefined /\ v # Null /\ v # <<>>

(***************************************************************************)
(* Literals of the source                                                  *)
(***************************************************************************)
kCtPlain == <<"C","o","n","t","e","n","t","-","T","y","p","e",":"," ","t","e","x","t","/","p","l","a","i","n">>
kCtHtml == <<"C","o","n","t","e","n","t","-","T","y","p","e",":"," ","t","e","x","t","/","h","t","m","l">>
kContentType == <<"C","o","n","t","e","n","t","-","T","y","p","e",":">>
kContentTransferEncoding == <<"C","o","n","t","e","n","t","-","T","r","a","n","s","f","e","r","-","E","n","c","o","d","i","n","g",":">>
kContentDash == <<"C","o","n","t","e","n","t","-">>
kDashDash == <<"-","-">>
kFrom == <<"F","r","o","m",":">>
kSubject == <<"S","u","b","j","e","c","t",":">>
kImageOpen == <<"[","i","m","a","g","e",":">>
kCidOpen == <<"[","c","i","d",":">>
kImageSlash == <<"i","m","a","g","e","/">>
kAmp == <<"&","a","m","p",";">>
kNbsp == <<"&","n","b","s","p",";">>
kLt == <<"&","l","t",";">>
kGt == <<"&","g","t",";">>
kQuot == <<"&","q","u","o","t",";">>
kApos == <<"&","#","x","2","7",";">>
kQpNbsp == <<"=","C","2","=","A","0">>
kStar == <<"*">>
kStarStar == <<"*","*">>
kNewline == <<"\n">>

(***************************************************************************)
(* Regular-expression replacements of parseEmailContent's final cleanup    *)
(***************************************************************************)

\* .replace(/--[0-9a-f]+--/g, ''), scanning from position i.
RECURSIVE StripClosingMarkersFrom(_, _)
StripClosingMarkersFrom(s, i) ==
    LET End(j) == LET e == RunEnd(s, j + 2, HexLower)
                  IN  IF /\ StartsWithAt(s, kDashDash, j)
                         /\ e > j + 2
                         /\ StartsWithAt(s, kDashDash, e)
                      THEN e + 2 ELSE 0
        hits   == {j \in i..Len(s) : End(j) # 0}
    IN  IF hits = {} THEN SubSeq(s, i, Len(s))
        ELSE SubSeq(s, i, Least(hits) - 1)
               \o StripClosingMarkersFrom(s, End(Least(hits)))

\* .replace(/^<prefix>.*$/gm, ''), scanning from position i: the rest of every
\* line that starts with prefix is removed, its line terminator is kept.
RECURSIVE StripHeaderLinesFrom(_, _, _)
StripHeaderLinesFrom(s, prefix, i) ==
    LET hits == {j \in i..Len(s) :
                    (j = 1 \/ s[j - 1] \in LT) /\ StartsWithAt(s, prefix, j)}
    IN  IF hits = {} THEN SubSeq(s, i, Len(s))
        ELSE SubSeq(s, i, Least(hits) - 1)
               \o StripHeaderLinesFrom(s, prefix, RunEndNot(s, Least(hits), LT))

\* .replace(/\[image:\s*[^\]]*\]/gi, '') and .replace(/\[cid:[^\]]*\]/gi, ''):
\* from the opening token to the first closing bracket, across lines.
RECURSIVE StripPlaceholdersFrom(_, _, _)
StripPlaceholdersFrom(s, open, i) ==
    LET End(j) == LET e == RunEndNot(s, j + Len(open), {"]"})
                  IN  IF StartsWithAtI(s, open, j) /\ e <= Len(s)
                      THEN e + 1 ELSE 0
        hits   == {j \in i..Len(s) : End(j) # 0}
    IN  IF hits = {} THEN SubSeq(s, i, Len(s))
        ELSE SubSeq(s, i, Least(hits) - 1)
               \o StripPlaceholdersFrom(s, open, End(Least(hits)))

\* The final cleanup chain of parseEmailContent.
FinalCleanup(b) ==
    LET s1 == StripClosingMarkersFrom(b, 1)
        s2 == StripHeaderLinesFrom(s1, kContentType, 1)
        s3 == StripHeaderLinesFrom(s2, kContentTransferEncoding, 1)
        s4 == StripPlaceholdersFrom(s3, kImageOpen, 1)
        s5 == StripPlaceholdersFrom(s4, kCidOpen, 1)
    IN  Trim(JoinLines(NonBlankLines(SplitLines(s5))))

(***************************************************************************)
(* convertHtmlToMarkdown                                                   *)
(***************************************************************************)

\* .replace(/<tag[^>]*>(.*?)<\/tag>/gi, 'mark$1mark'), scanning from i. The
\* opening pattern is the tag name followed by anything up to the next ">",
\* the lazy group stays on one line (`.` matches no line terminator).
RECURSIVE ReplaceTagPairFrom(_, _, _, _)
ReplaceTagPairFrom(s, tag, mark, i) ==
    LET open     == <<"<">> \o tag
        close    == <<"<","/">> \o tag \o <<">">>
        Gt(j)    == RunEndNot(s, j + Len(open), {">"})
        Ends(j)  == {m \in (Gt(j) + 1)..RunEndNot(s, Gt(j) + 1, LT) :
                        StartsWithAtI(s, close, m)}
        hits     == {j \in i..Len(s) :
                        StartsWithAtI(s, open, j) /\ Gt(j) <= Len(s) /\ Ends(j) # {}}
    IN  IF hits = {} THEN SubSeq(s, i, Len(s))
        ELSE LET j == Least(hits)
                 e == Least(Ends(j))
             IN  SubSeq(s, i, j - 1)
                   \o mark \o SubSeq(s, Gt(j) + 1, e - 1) \o mark
                   \o ReplaceTagPairFrom(s, tag, mark, e + Len(close))

\* .replace(/<br\s*\/?>/gi, '\n'), scanning from i.
RECURSIVE ReplaceBrFrom(_, _)
ReplaceBrFrom(s, i) ==
    LET End(j) == LET w == RunEnd(s, j + 3, WS)
                      g == IF w <= Len(s) /\ s[w] = "/" THEN w + 1 ELSE w
                  IN  IF StartsWithAtI(s, <<"<","b","r">>, j) /\ g <= Len(s) /\ s[g] = ">"
                      THEN g + 1 ELSE 0
        hits   == {j \in i..Len(s) : End(j) # 0}
    IN  IF hits = {} THEN SubSeq(s, i, Len(s))
        ELSE SubSeq(s, i, Least(hits) - 1)
               \o kNewline \o ReplaceBrFrom(s, End(Least(hits)))

\* .replace(/<p[^>]*>/gi, '\n'), scanning from i.
RECURSIVE ReplacePOpenFrom(_, _)
ReplacePOpenFrom(s, i) ==
    LET Gt(j) == RunEndNot(s, j + 2, {">"})
        hits  == {j \in i..Len(s) :
                     StartsWithAtI(s, <<"<","p">>, j) /\ Gt(j) <= Len(s)}
    IN  IF hits = {} THEN SubSeq(s, i, Len(s))
        ELSE SubSeq(s, i, Least(hits) - 1)
               \o kNewline \o ReplacePOpenFrom(s, Gt(Least(hits)) + 1)

\* .replace(/<[^>]+>/g, ''), scanning from i.
RECURSIVE StripTagsFrom(_, _)
StripTagsFrom(s, i) ==
    LET Gt(j) == RunEndNot(s, j + 1, {">"})
        hits  == {j \in i..Len(s) :
                     s[j] = "<" /\ Gt(j) > j + 1 /\ Gt(j) <= Len(s)}
    IN  IF hits = {} THEN SubSeq(s, i, Len(s))
        ELSE SubSeq(s, i, Least(hits) - 1)
               \o StripTagsFrom(s, Gt(Least(hits)) + 1)

\* .replace(/pat/g, rep) for a literal pat (ci: with the i flag), scanning from i.
RECURSIVE ReplaceAllFrom(_, _, _, _, _)
ReplaceAllFrom(s, pat, rep, ci, i) ==
    LET hits == {j \in i..Len(s) :
                    IF ci THEN StartsWithAtI(s, pat, j) ELSE StartsWithAt(s, pat, j)}
    IN  IF hits = {} THEN SubSeq(s, i, Len(s))
        ELSE SubSeq(s, i, Least(hits) - 1)
               \o rep \o ReplaceAllFrom(s, pat, rep, ci, Least(hits) + Len(pat))

\* .replace(/\n\s*\n/g, '\n\n'), scanning from i: a newline, then the longest
\* run of white space that still ends with a newline.
RECURSIVE CollapseBlankLinesFrom(_, _)
CollapseBlankLinesFrom(s, i) ==
    LET Nls(j) == {k \in (j + 1)..(RunEnd(s, j + 1, WS) - 1) : s[k] = "\n"}
        hits   == {j \in i..Len(s) : s[j] = "\n" /\ Nls(j) # {}}
    IN  IF hits = {} THEN SubSeq(s, i, Len(s))
        ELSE LET j == Least(hits)
                 e == CHOOSE k \in Nls(j) : \A m \in Nls(j) : k >= m
             IN  SubSeq(s, i, j - 1)
                   \o <<"\n","\n">> \o CollapseBlankLinesFrom(s, e + 1)

convertHtmlToMarkdown(html) ==
    IF html = <<>> THEN <<>>
    ELSE LET h1  == ReplaceTagPairFrom(html, <<"b">>, kStarStar, 1)
             h2  == ReplaceTagPairFrom(h1, <<"s","t","r","o","n","g">>, kStarStar, 1)
             h3  == ReplaceTagPairFrom(h2, <<"i">>, kStar, 1)
             h4  == ReplaceTagPairFrom(h3, <<"e","m">>, kStar, 1)
             h5  == ReplaceBrFrom(h4, 1)
             h6  == ReplacePOpenFrom(h5, 1)
             h7  == ReplaceAllFrom(h6, <<"<","/","p",">">>, kNewline, TRUE, 1)
             h8  == StripTagsFrom(h7, 1)
             h9  == ReplaceAllFrom(h8, kNbsp, <<" ">>, FALSE, 1)
             h10 == ReplaceAllFrom(h9, kAmp, <<"&">>, FALSE, 1)
             h11 == ReplaceAllFrom(h10, kLt, <<"<">>, FALSE, 1)
             h12 == ReplaceAllFrom(h11, kGt, <<">">>, FALSE, 1)
             h13 == ReplaceAllFrom(h12, kQuot, <<"\"">>, FALSE, 1)
             h14 == ReplaceAllFrom(h13, kApos, <<"'">>, FALSE, 1)
             h15 == ReplaceAllFrom(h14, kQpNbsp, <<" ">>, FALSE, 1)
             h16 == CollapseBlankLinesFrom(h15, 1)
         IN  Trim(h16)

(***************************************************************************)
(* Header extraction: headers.match(/^Name:\s*(.+)$/m)                     *)
(***************************************************************************)

\* Where the group (.+) starts when the pattern is tried at line start p, or 0
\* when it does not match there. \s* is greedy and also runs over line
\* terminators; it gives characters back only when nothing follows it.
HeaderGroupStart(h, name, p) ==
    LET q == p + Len(name)
        w == RunEnd(h, q, WS)
        back == {j \in q..(w - 1) : h[j] \notin LT}
    IN  IF w <= Len(h) THEN w
        ELSE IF back = {} THEN 0
        ELSE CHOOSE j \in back : \A m \in back : j >= m

\* match[1] of the first match, or NoMatch (null) when there is no match.
NoMatch == <<"null">>

HeaderMatch(h, name) ==
    LET starts == {p \in 1..Len(h) :
                     /\ p = 1 \/ h[p - 1] \in LT
                     /\ StartsWithAt(h, name, p)
                     /\ HeaderGroupStart(h, name, p) # 0}
    IN  IF starts = {} THEN NoMatch
        ELSE LET p == CHOOSE p \in starts : \A m \in starts : p <= m
                 g == HeaderGroupStart(h, name, p)
             IN  SubSeq(h, g, RunEndNot(h, g, LT) - 1)

\* const x = match ? match[1].trim() : ''
HeaderValue(h, name) ==
    LET m == HeaderMatch(h, name)
    IN  IF m = NoMatch THEN <<>> ELSE Trim(m)

(***************************************************************************)
(* parseEmailContent: the line scanner, body selection                     *)
(***************************************************************************)

\* The scanner's locals before the first line.
ScanInit ==
    [headerSection |-> TRUE, headers |-> <<>>,
     textPlainLines |-> <<>>, textHtmlLines |-> <<>>,
     inTextPlain |-> FALSE, inTextHtml |-> FALSE, foundContentStart |-> FALSE]

\* A scanner whose boundary lines keep the flags of the part before.
ScanStep_NoReset(st, line) ==
    IF st.headerSection
    THEN IF IsBlank(line)
         THEN [st EXCEPT !.headerSection = FALSE]
         ELSE [st EXCEPT !.headers = @ \o line \o <<"\n">>]
    ELSE IF Includes(line, kCtPlain)
         THEN [st EXCEPT !.inTextPlain = TRUE, !.inTextHtml = FALSE,
                         !.foundContentStart = FALSE]
    ELSE IF Includes(line, kCtHtml)
         THEN [st EXCEPT !.inTextHtml = TRUE, !.inTextPlain = FALSE,
                         !.foundContentStart = FALSE]
    ELSE IF StartsWith(line, kContentType) \/ StartsWith(line, kContentTransferEncoding)
         THEN st
    ELSE IF IsBlank(line) /\ (st.inTextPlain \/ st.inTextHtml) /\ ~st.foundContentStart
         THEN [st EXCEPT !.foundContentStart = TRUE]
    ELSE IF StartsWith(line, kDashDash) /\ Includes(line, kDashDash)
         THEN st
    ELSE IF st.inTextPlain /\ st.foundContentStart
         THEN [st EXCEPT !.textPlainLines = Append(@, line)]
    ELSE IF st.inTextHtml /\ st.foundContentStart
         THEN [st EXCEPT !.textHtmlLines = Append(@, line)]
    ELSE st

\* One iteration of the for loop over lines: the scanner's locals after line.
ScanStep(st, line) ==
    IF st.headerSection
    THEN IF IsBlank(line)
         THEN [st EXCEPT !.headerSection = FALSE]
         ELSE [st EXCEPT !.headers = @ \o line \o <<"\n">>]
    ELSE IF Includes(line, kCtPlain)
         THEN [st EXCEPT !.inTextPlain = TRUE, !.inTextHtml = FALSE,
                         !.foundContentStart = FALSE]
    ELSE IF Includes(line, kCtHtml)
         THEN [st EXCEPT !.inTextHtml = TRUE, !.inTextPlain = FALSE,
                         !.foundContentStart = FALSE]
    ELSE IF StartsWith(line, kContentType) \/ StartsWith(line, kContentTransferEncoding)
         THEN st
    ELSE IF IsBlank(line) /\ (st.inTextPlain \/ st.inTextHtml) /\ ~st.foundContentStart
         THEN [st EXCEPT !.foundContentStart = TRUE]
    ELSE IF StartsWith(line, kDashDash) /\ Includes(line, kDashDash)
         THEN [st EXCEPT !.inTextPlain = FALSE, !.inTextHtml = FALSE,
                         !.foundContentStart = FALSE]
    ELSE IF st.inTextPlain /\ st.foundContentStart
         THEN [st EXCEPT !.textPlainLines = Append(@, line)]
    ELSE IF st.inTextHtml /\ st.foundContentStart
         THEN [st EXCEPT !.textHtmlLines = Append(@, line)]
    ELSE st

\* The fallback loop: the lines after the first blank line that are not blank
\* and start neither with "Content-" nor with "--". bodyStart is the loop's flag.
\* A fallback that keeps the lines starting with two dashes.
RECURSIVE FallbackLines_KeepsDashes(_, _)
FallbackLines_KeepsDashes(ls, bodyStart) ==
    IF ls = <<>> THEN <<>>
    ELSE LET line == ls[1]
         IN  IF bodyStart /\ ~StartsWith(line, kContentDash) /\ ~IsBlank(line)
             THEN <<line>> \o FallbackLines_KeepsDashes(Tail(ls), bodyStart)
             ELSE IF IsBlank(line) /\ ~bodyStart
                  THEN FallbackLines_KeepsDashes(Tail(ls), TRUE)
                  ELSE FallbackLines_KeepsDashes(Tail(ls), bodyStart)

\* A fallback that does not wait for the first blank line.
RECURSIVE FallbackLines_NoBlankLineNeeded(_, _)
FallbackLines_NoBlankLineNeeded(ls, bodyStart) ==
    IF ls = <<>> THEN <<>>
    ELSE LET line == ls[1]
         IN  IF /\ ~StartsWith(line, kContentDash)
                /\ ~StartsWith(line, kDashDash)
                /\ ~IsBlank(line)
             THEN <<line>> \o FallbackLines_NoBlankLineNeeded(Tail(ls), bodyStart)
             ELSE FallbackLines_NoBlankLineNeeded(Tail(ls), bodyStart)

RECURSIVE FallbackLines(_, _)
FallbackLines(ls, bodyStart) ==
    IF ls = <<>> THEN <<>>
    ELSE LET line == ls[1]
         IN  IF /\ bodyStart
                /\ ~StartsWith(line, kContentDash)
                /\ ~StartsWith(line, kDashDash)
                /\ ~IsBlank(line)
             THEN <<line>> \o FallbackLines(Tail(ls), bodyStart)
             ELSE IF IsBlank(line) /\ ~bodyStart
                  THEN FallbackLines(Tail(ls), TRUE)
                  ELSE FallbackLines(Tail(ls), bodyStart)

\* "Choose the best content": plain text, else HTML as markdown, else fallback.
\* The value of body before the final cleanup.
SelectBody(plainLines, htmlLines, rawEmail) ==
    IF Len(plainLines) > 0
    THEN Trim(JoinLines(plainLines))
    ELSE IF Len(htmlLines) > 0
         THEN convertHtmlToMarkdown(Trim(JoinLines(htmlLines)))
         ELSE Trim(JoinLines(FallbackLines(SplitLines(rawEmail), FALSE)))

(***************************************************************************)
(* atob and parseAttachments                                               *)
(***************************************************************************)
Digits == <<"0","1","2","3","4","5","6","7","8","9">>

\* The base64 alphabet, in value order.
B64 == Upper \o Lower \o Digits \o <<"+","/">>

B64Val(c) == (CHOOSE k \in 1..64 : B64[k] = c) - 1

RECURSIVE RemoveChars(_, _)
RemoveChars(s, cs) ==
    IF s = <<>> THEN <<>>
    ELSE IF s[1] \in cs THEN RemoveChars(Tail(s), cs)
    ELSE <<s[1]>> \o RemoveChars(Tail(s), cs)

\* The bytes of a string of base64 characters without padding (Len % 4 # 1).
RECURSIVE B64Bytes(_)
B64Bytes(s) ==
    IF Len(s) < 2 THEN <<>>
    ELSE LET a == B64Val(s[1])
             b == B64Val(s[2])
             c == IF Len(s) >= 3 THEN B64Val(s[3]) ELSE 0
             d == IF Len(s) >= 4 THEN B64Val(s[4]) ELSE 0
             n == a * 262144 + b * 4096 + c * 64 + d
             three == <<n \div 65536, (n \div 256) % 256, n % 256>>
         IN  IF Len(s) >= 4 THEN three \o B64Bytes(SubSeq(s, 5, Len(s)))
             ELSE SubSeq(three, 1, Len(s) - 1)

\* atob (forgiving-base64 decode): threw is set when it throws
\* InvalidCharacterError, bytes are the decoded bytes otherwise.
atob(text) ==
    LET s0 == RemoveChars(text, {" ", "\t", "\n", "\r"})
        s1 == IF Len(s0) % 4 = 0 /\ Len(s0) >= 1 /\ s0[Len(s0)] = "="
              THEN IF Len(s0) >= 2 /\ s0[Len(s0) - 1] = "="
                   THEN SubSeq(s0, 1, Len(s0) - 2)
                   ELSE SubSeq(s0, 1, Len(s0) - 1)
              ELSE s0
    IN  IF Len(s1) % 4 = 1 \/ \E k \in 1..Len(s1) : \A j \in 1..64 : B64[j] # s1[k]
        THEN [threw |-> TRUE, bytes |-> <<>>]
        ELSE [threw |-> FALSE, bytes |-> B64Bytes(s1)]

kImage == <<"i","m","a","g","e">>

\* The Uint8Array built from one postal-mime attachment's content: an
\* ArrayBuffer is wrapped, a string is decoded with atob (which may throw),
\* anything else gives an empty array.
AttachmentData(content) ==
    IF content.kind = "ArrayBuffer" THEN [threw |-> FALSE, bytes |-> content.bytes]
    ELSE IF content.kind = "string" THEN atob(content.text)
    ELSE [threw |-> FALSE, bytes |-> <<>>]

\* The same loop without the test of the MIME type.
RECURSIVE CollectImages_Unfiltered(_, _)
CollectImages_Unfiltered(atts, acc) ==
    IF atts = <<>> THEN [threw |-> FALSE, list |-> acc]
    ELSE LET a == atts[1]
             d == AttachmentData(a.content)
         IN  IF d.threw
             THEN [threw |-> TRUE, list |-> acc]
             ELSE CollectImages_Unfiltered(Tail(atts),
                    Append(acc, [filename |-> IF Truthy(a.filename)
                                              THEN a.filename ELSE kImage,
                                 contentType |-> IF a.mimeType = Undefined
                                                 THEN <<>> ELSE a.mimeType,
                                 data |-> d.bytes,
                                 cid |-> a.contentId]))

\* The loop over email.attachments inside the try block: acc is the list
\* built so far; a throw of atob leaves the loop with what was pushed.
RECURSIVE CollectImages(_, _)
CollectImages(atts, acc) ==
    IF atts = <<>> THEN [threw |-> FALSE, list |-> acc]
    ELSE LET a == atts[1]
             d == AttachmentData(a.content)
         IN  IF a.mimeType # Undefined /\ StartsWith(a.mimeType, kImageSlash)
             THEN IF d.threw
                  THEN [threw |-> TRUE, list |-> acc]
                  ELSE CollectImages(Tail(atts),
                         Append(acc, [filename |-> IF Truthy(a.filename)
                                                   THEN a.filename ELSE kImage,
                                      contentType |-> a.mimeType,
                                      data |-> d.bytes,
                                      cid |-> a.contentId]))
             ELSE CollectImages(Tail(atts), acc)

\* A parseAttachments without the try block: a rejection of the parse and a
\* throw of atob leave it.
parseAttachments_Uncaught(answer) ==
    [threw |-> answer.threw \/ CollectImages(answer.attachments, <<>>).threw,
     list |-> IF answer.threw THEN <<>>
              ELSE CollectImages(answer.attachments, <<>>).list]

\* parseAttachments: answer is what PostalMime#parse does with the raw text
\* (threw: it rejects). The try block holds the parse and the whole loop, the
\* catch logs, and the attachments array is returned either way: threw is
\* never set in the result.
parseAttachments(answer) ==
    [threw |-> FALSE,
     list |-> IF answer.threw THEN <<>>
              ELSE CollectImages(answer.attachments, <<>>).list]

(***************************************************************************)
(* parseAttachments of the boundary-splitting decoder                      *)
(***************************************************************************)
kBoundaryEq == <<"b","o","u","n","d","a","r","y","=">>
kContentTypeI == <<"C","o","n","t","e","n","t","-","T","y","p","e",":">>
kContentDisposition == <<"C","o","n","t","e","n","t","-","D","i","s","p","o","s","i","t","i","o","n",":">>
kAttachment == <<"a","t","t","a","c","h","m","e","n","t">>
kInline == <<"i","n","l","i","n","e">>
kFilenameEq == <<"f","i","l","e","n","a","m","e","=">>
kContentId == <<"C","o","n","t","e","n","t","-","I","D",":">>
kContentTransferEncodingI == <<"C","o","n","t","e","n","t","-","T","r","a","n","s","f","e","r","-","E","n","c","o","d","i","n","g",":">>
kBase64 == <<"b","a","s","e","6","4">>
kQuotedPrintable == <<"q","u","o","t","e","d","-","p","r","i","n","t","a","b","l","e">>
kBlankLine == <<"\n","\n">>

\* String.prototype.match without the g flag: the capture of the leftmost
\* position where At gives one, or NoMatch.
FirstCapture(s, At(_, _)) ==
    LET hits == {k \in 1..Len(s) : At(s, k) # NoMatch}
    IN  IF hits = {} THEN NoMatch ELSE At(s, Least(hits))

\* /boundary="?([^"\s;]+)"?/i at position k.
BoundaryAt(s, k) ==
    IF ~StartsWithAtI(s, kBoundaryEq, k) THEN NoMatch
    ELSE LET stop == WS \cup {"\"", ";"}
             q == k + Len(kBoundaryEq)
             b == IF q + 1 <= Len(s) /\ s[q] = "\"" /\ s[q + 1] \notin stop
                  THEN q + 1 ELSE q
             e == RunEndNot(s, b, stop)
         IN  IF e > b THEN SubSeq(s, b, e - 1) ELSE NoMatch

\* /Content-Type:\s*([^\s;]+)/i at position k.
ContentTypeAt(s, k) ==
    IF ~StartsWithAtI(s, kContentTypeI, k) THEN NoMatch
    ELSE LET b == RunEnd(s, k + Len(kContentTypeI), WS)
             e == RunEndNot(s, b, WS \cup {";"})
         IN  IF e > b THEN SubSeq(s, b, e - 1) ELSE NoMatch

\* /Content-Disposition:\s*(?:attachment|inline)[^;]*;\s*filename="?([^"\n\r;]+)"?/i
\* at position k.
ContentDispositionAt(s, k) ==
    IF ~StartsWithAtI(s, kContentDisposition, k) THEN NoMatch
    ELSE LET stop == {"\"", "\n", "\r", ";"}
             d == RunEnd(s, k + Len(kContentDisposition), WS)
             t == IF StartsWithAtI(s, kAttachment, d) THEN d + Len(kAttachment)
                  ELSE IF StartsWithAtI(s, kInline, d) THEN d + Len(kInline)
                  ELSE 0
             semi == IF t = 0 THEN 0 ELSE IndexOfFrom(s, <<";">>, t)
             f == IF semi = 0 THEN 0 ELSE RunEnd(s, semi + 1, WS)
             q == f + Len(kFilenameEq)
             b == IF q + 1 <= Len(s) /\ s[q] = "\"" /\ s[q + 1] \notin stop
                  THEN q + 1 ELSE q
             e == RunEndNot(s, b, stop)
         IN  IF f # 0 /\ StartsWithAtI(s, kFilenameEq, f) /\ e > b
             THEN SubSeq(s, b, e - 1) ELSE NoMatch

\* /Content-ID:\s*<([^>]+)>/i at position k.
ContentIdAt(s, k) ==
    IF ~StartsWithAtI(s, kContentId, k) THEN NoMatch
    ELSE LET b == RunEnd(s, k + Len(kContentId), WS)
             e == IF b <= Len(s) /\ s[b] = "<"
                  THEN IndexOfFrom(s, <<">">>, b + 1) ELSE 0
         IN  IF e > b + 1 THEN SubSeq(s, b + 1, e - 1) ELSE NoMatch

\* /Content-Transfer-Encoding:\s*(\S+)/i at position k.
ContentTransferEncodingAt(s, k) ==
    IF ~StartsWithAtI(s, kContentTransferEncodingI, k) THEN NoMatch
    ELSE LET b == RunEnd(s, k + Len(kContentTransferEncodingI), WS)
             e == RunEndNot(s, b, WS)
         IN  IF e > b THEN SubSeq(s, b, e - 1) ELSE NoMatch

\* rawData.split(new RegExp(`--${escaped boundary}`, 'g')): the pattern is
\* the literal text sep.
RECURSIVE SplitOn(_, _)
SplitOn(s, sep) ==
    LET k == IndexOfFrom(s, sep, 1)
    IN  IF k = 0 \/ k > Len(s) THEN <<s>>
        ELSE <<SubSeq(s, 1, k - 1)>> \o SplitOn(SubSeq(s, k + Len(sep), Len(s)), sep)

\* The printable ASCII characters, from code 32 on (the empty entry stands
\* for the grave accent, which no text of the model holds).
Ascii == <<" ","!","\"","#","$","%","&","'","(",")","*","+",",","-",".","/","0","1","2","3","4","5","6","7","8","9",":",";","<","=",">","?","@","A","B","C","D","E","F","G","H","I","J","K","L","M","N","O","P","Q","R","S","T","U","V","W","X","Y","Z","[","\\","]","^","_","","a","b","c","d","e","f","g","h","i","j","k","l","m","n","o","p","q","r","s","t","u","v","w","x","y","z","{","|","}","~">>

\* The code unit of a character of the mail text.
CharCode(c) ==
    IF c = "\n" THEN 10 ELSE IF c = "\r" THEN 13 ELSE IF c = "\t" THEN 9
    ELSE 31 + (CHOOSE k \in 1..Len(Ascii) : Ascii[k] = c)

HexUpper == <<"0","1","2","3","4","5","6","7","8","9","A","B","C","D","E","F">>

HexVal(c) == (CHOOSE k \in 1..16 : HexUpper[k] = c) - 1

IsHexUpper(c) == \E k \in 1..16 : HexUpper[k] = c

\* rawData.replace(/=([0-9A-F]{2})/g, String.fromCharCode(parseInt(hex, 16))),
\* as the code units of the result.
RECURSIVE QuotedPrintableUnits(_, _)
QuotedPrintableUnits(s, k) ==
    IF k > Len(s) THEN <<>>
    ELSE IF s[k] = "=" /\ k + 2 <= Len(s) /\ IsHexUpper(s[k + 1]) /\ IsHexUpper(s[k + 2])
         THEN <<16 * HexVal(s[k + 1]) + HexVal(s[k + 2])>>
                \o QuotedPrintableUnits(s, k + 3)
         ELSE <<CharCode(s[k])>> \o QuotedPrintableUnits(s, k + 1)

\* new TextEncoder().encode: UTF-8, one byte below 128 and two below 2048.
RECURSIVE Utf8(_)
Utf8(units) ==
    IF units = <<>> THEN <<>>
    ELSE (IF units[1] < 128 THEN <<units[1]>>
          ELSE <<192 + (units[1] \div 64), 128 + (units[1] % 64)>>) \o Utf8(Tail(units))

IsB64(c) == \E k \in 1..64 : B64[k] = c

\* The base64 characters of s that Buffer.from(s, 'base64') decodes. It never
\* throws; the text ends at the first "=", and a character outside the
\* alphabet is either skipped or ends the text (lenient), as the runtime's
\* Buffer does.
RECURSIVE LenientBase64(_, _)
LenientBase64(s, lenient) ==
    IF s = <<>> \/ s[1] = "=" THEN <<>>
    ELSE IF IsB64(s[1]) THEN <<s[1]>> \o LenientBase64(Tail(s), lenient)
    ELSE IF lenient = "skip" THEN LenientBase64(Tail(s), lenient)
    ELSE <<>>

\* new Uint8Array(Buffer.from(cleanBase64, 'base64'))
BufferFromBase64(s, lenient) == B64Bytes(LenientBase64(s, lenient))

TextUnits(s) == [k \in 1..Len(s) |-> CharCode(s[k])]

\* The decoding of one part's data by its transfer encoding.
DecodePart(data, encoding, lenient) ==
    IF encoding = kBase64
    THEN BufferFromBase64(RemoveChars(data, WS), lenient)
    ELSE IF encoding = kQuotedPrintable
    THEN Utf8(QuotedPrintableUnits(data, 1))
    ELSE Utf8(TextUnits(data))

\* The body of the loop over parts: the attachments one part adds (none or
\* one).
PartAttachments(part, lenient) ==
    LET contentTypeMatch == FirstCapture(part, ContentTypeAt)
        contentDispositionMatch == FirstCapture(part, ContentDispositionAt)
        contentIDMatch == FirstCapture(part, ContentIdAt)
        contentTransferEncodingMatch == FirstCapture(part, ContentTransferEncodingAt)
        contentType == ToLowerCase(contentTypeMatch)
        filename == IF contentDispositionMatch # NoMatch THEN contentDispositionMatch
                    ELSE IF contentIDMatch # NoMatch THEN contentIDMatch
                    ELSE kAttachment
        cid == IF contentIDMatch # NoMatch THEN contentIDMatch ELSE Undefined
        encoding == IF contentTransferEncodingMatch # NoMatch
                    THEN ToLowerCase(contentTransferEncodingMatch)
                    ELSE kBase64
        headerEndIndex == IndexOfFrom(part, kBlankLine, 1)
        data == Trim(SubSeq(part, headerEndIndex + 2, Len(part)))
    IN  IF IsBlank(part) THEN <<>>
        ELSE IF contentTypeMatch = NoMatch
                  \/ (contentDispositionMatch = NoMatch /\ contentIDMatch = NoMatch)
        THEN <<>>
        ELSE IF headerEndIndex = 0 \/ headerEndIndex > Len(part) THEN <<>>
        ELSE IF data = <<>> THEN <<>>
        ELSE IF StartsWith(contentType, kImageSlash)
        THEN <<[filename |-> filename, contentType |-> contentType,
                data |-> DecodePart(data, encoding, lenient), cid |-> cid]>>
        ELSE <<>>

(***************************************************************************)
(* extractEmailAddress                                                     *)
(***************************************************************************)
\* \w of regular expressions.
WordChars == Alnum \cup {"_"}
LocalChars == Alnum \cup {".", "_", "%", "+", "-"}
DomainChars == Alnum \cup {".", "-"}
\* [A-Z|a-z]: the letters and the bar.
TldChars == {Upper[k] : k \in 1..26} \cup {Lower[k] : k \in 1..26} \cup {"|"}

IsWordAt(s, i) == i >= 1 /\ i <= Len(s) /\ s[i] \in WordChars

\* \b at position i (between s[i-1] and s[i]).
WordBoundary(s, i) == IsWordAt(s, i - 1) # IsWordAt(s, i)

\* The ends (exclusive) of the matches of
\* /\b[A-Za-z0-9._%+-]+@[A-Za-z0-9.-]+\.[A-Z|a-z]{2,}\b/ that start at i,
\* each paired with the position of the dot the domain gave back.
AddressEnds(s, i) ==
    LET at   == RunEnd(s, i, LocalChars)
        dEnd == RunEnd(s, at + 1, DomainChars)
    IN  IF ~(WordBoundary(s, i) /\ at > i /\ at <= Len(s) /\ s[at] = "@")
        THEN {}
        ELSE {<<k, e>> \in ((at + 2)..(dEnd - 1)) \X ((at + 5)..(Len(s) + 1)) :
                /\ s[k] = "."
                /\ e >= k + 3
                /\ e <= RunEnd(s, k + 1, TldChars)
                /\ WordBoundary(s, e)}

\* The match the backtracking engine finds at i: the domain is greedy (the
\* last dot that works), then the top-level part is greedy (the longest).
AddressMatchAt(s, i) ==
    LET ends == AddressEnds(s, i)
        best == CHOOSE x \in ends : \A y \in ends :
                   x[1] > y[1] \/ (x[1] = y[1] /\ x[2] >= y[2])
    IN  SubSeq(s, i, best[2] - 1)

extractEmailAddress(fromHeader) ==
    LET starts == {i \in 1..Len(fromHeader) : AddressEnds(fromHeader, i) # {}}
    IN  IF starts = {} THEN <<>>
        ELSE ToLowerCase(AddressMatchAt(fromHeader,
                 CHOOSE i \in starts : \A j \in starts : i <= j))

(***************************************************************************)
(* Rendering helpers of createIssue and sendDiscordNotification            *)
(***************************************************************************)
\* String.prototype.slice(0, n)
Slice(s, n) == SubSeq(s, 1, IF Len(s) < n THEN Len(s) ELSE n)

\* attachment.filename.replace(/[^a-zA-Z0-9.-]/g, '_')
safeName(filename) ==
    [k \in 1..Len(filename) |->
        IF filename[k] \in Alnum \cup {".", "-"} THEN filename[k] ELSE "_"]

\* Date.now() as text; its value plays no part in any decision.
timestamp == <<"1","7">>

uniqueFileName(filename) == timestamp \o <<"_">> \o safeName(filename)

\* Whether the regular expression built from the text pat (every character a
\* literal, except "." which matches any character but a line terminator)
\* matches s at position i, ignoring case.
PatternAt(s, pat, i) ==
    /\ i >= 1
    /\ i + Len(pat) - 1 <= Len(s)
    /\ \A k \in 1..Len(pat) :
          IF pat[k] = "." THEN s[i + k - 1] \notin LT
          ELSE LowerChar(s[i + k - 1]) = LowerChar(pat[k])

\* s.replace(new RegExp(pat, 'gi'), rep), scanning from i.
RECURSIVE ReplacePatternFrom(_, _, _, _)
ReplacePatternFrom(s, pat, rep, i) ==
    LET hits == {j \in i..Len(s) : PatternAt(s, pat, j)}
    IN  IF hits = {} THEN SubSeq(s, i, Len(s))
        ELSE SubSeq(s, i, Least(hits) - 1)
               \o rep \o ReplacePatternFrom(s, pat, rep, Least(hits) + Len(pat))

kCid == <<"c","i","d",":">>
kAttachmentsHeading == <<"\n","\n","#","#"," ","A","t","t","a","c","h","m","e","n","t","s","\n","\n">>
kAttachmentsList == <<"\n","\n","A","t","t","a","c","h","m","e","n","t","s",":">>
kAttributionOpen == <<"\n","\n","-","-","-","\n","*","O","r","i","g","i","n","a","l","l","y"," ","s","e","n","t"," ","b","y"," ","@">>
kLabelEmail == "email-to-issue"
kLabelMember == "member-email"

\* The hosted link Imgur answers for the k-th upload of this e-mail.
ImageUrl(k) == <<"h",":","/","/","i","/">> \o <<Digits[k + 1]>>

\* Promise.all over uploads that reject: one failure loses every image.
UploadedFrom_AllOrNothing(atts, ups, k) ==
    IF \E j \in 1..Len(atts) : ups[j] # "ok" THEN <<>>
    ELSE [j \in 1..Len(atts) |->
            [originalName |-> atts[j].filename,
             uniqueFileName |-> uniqueFileName(atts[j].filename),
             imageUrl |-> ImageUrl(j),
             cid |-> atts[j].cid]]

\* uploadedImages: the attachments whose upload gave a link, in list order
\* (Promise.all keeps the order of the promises; filter(Boolean) drops null).
RECURSIVE UploadedFrom(_, _, _)
UploadedFrom(atts, ups, k) ==
    IF k > Len(atts) THEN <<>>
    ELSE IF ups[k] = "ok"
         THEN <<[originalName |-> atts[k].filename,
                 uniqueFileName |-> uniqueFileName(atts[k].filename),
                 imageUrl |-> ImageUrl(k),
                 cid |-> atts[k].cid]>> \o UploadedFrom(atts, ups, k + 1)
         ELSE UploadedFrom(atts, ups, k + 1)

\* The loop replacing cid: references by hosted links.
RECURSIVE ReplaceCids(_, _)
ReplaceCids(text, images) ==
    IF images = <<>> THEN text
    ELSE ReplaceCids(IF Truthy(images[1].cid)
                     THEN ReplacePatternFrom(text, kCid \o images[1].cid,
                                             images[1].imageUrl, 1)
                     ELSE text,
                     Tail(images))

\* ![originalName](imageUrl)\n\n for every uploaded image, in order.
RECURSIVE ImageMarkdown(_)
ImageMarkdown(images) ==
    IF images = <<>> THEN <<>>
    ELSE <<"!","[">> \o images[1].originalName \o <<"]","(">>
           \o images[1].imageUrl \o <<")","\n","\n">> \o ImageMarkdown(Tail(images))

\* The parameters of POST /repos/{owner}/{repo}/issues.
\* The issue parameters with the member label set for every sender that has
\* an address, found or not.
IssueParams_LabelBySender(title, text, images, user, sender) ==
    LET b1 == ReplaceCids(text, images)
        b2 == IF Len(images) > 0
              THEN b1 \o kAttachmentsHeading \o ImageMarkdown(images)
              ELSE b1
        b3 == IF Truthy(user) /\ Truthy(sender)
              THEN b2 \o kAttributionOpen \o user \o <<" ","(">> \o sender
                      \o <<")","*">>
              ELSE b2
    IN  [kind |-> "issue", title |-> title, body |-> b3,
         labels |-> IF Truthy(sender) THEN <<kLabelEmail, kLabelMember>>
                    ELSE <<kLabelEmail>>]

IssueParams(title, text, images, user, sender) ==
    LET b1 == ReplaceCids(text, images)
        b2 == IF Len(images) > 0
              THEN b1 \o kAttachmentsHeading \o ImageMarkdown(images)
              ELSE b1
        b3 == IF Truthy(user) /\ Truthy(sender)
              THEN b2 \o kAttributionOpen \o user \o <<" ","(">> \o sender
                      \o <<")","*">>
              ELSE b2
    IN  [kind |-> "issue", title |-> title, body |-> b3,
         labels |-> IF Truthy(user) THEN <<kLabelEmail, kLabelMember>>
                    ELSE <<kLabelEmail>>]

\* \n- originalName: imageUrl for every image, in order.
RECURSIVE ImageLinks(_)
ImageLinks(images) ==
    IF images = <<>> THEN <<>>
    ELSE <<"\n","-"," ">> \o images[1].originalName \o <<":"," ">>
           \o images[1].imageUrl \o ImageLinks(Tail(images))

TitleLimit == 256
DescriptionLimit == 4096

\* An embed that also lists the preview image in the description.
DiscordEmbed_ListsAll(title, text, images) ==
    LET description == IF Len(images) > 1
                       THEN text \o kAttachmentsList \o ImageLinks(images)
                       ELSE text
    IN  [kind |-> "webhook",
         title |-> Slice(title, TitleLimit),
         description |-> Slice(description, DescriptionLimit),
         image |-> IF Len(images) > 0 THEN images[1].imageUrl ELSE Undefined]

\* The embed of the Discord webhook payload.
DiscordEmbed(title, text, images) ==
    LET description == IF Len(images) > 1
                       THEN text \o kAttachmentsList \o ImageLinks(Tail(images))
                       ELSE text
    IN  [kind |-> "webhook",
         title |-> Slice(title, TitleLimit),
         description |-> Slice(description, DescriptionLimit),
         image |-> IF Len(images) > 0 THEN images[1].imageUrl ELSE Undefined]

(***************************************************************************)
(* Bounds and input spaces                                                 *)
(***************************************************************************)
\* The most chunks the raw stream delivers one message in.
MaxChunks == 2
\* The most attachments postal-mime reports for one message.
MaxAttachments == 3
\* The most accounts one GitHub listing (members, collaborators) returns.
MaxAccounts == 1

vDiscord == <<"D","i","s","c","o","r","d">>
vGitlab == <<"g","i","t","l","a","b">>
kDiscord == <<"d","i","s","c","o","r","d">>
kGithub == <<"g","i","t","h","u","b">>
vOwner == <<"o","c","t","o">>
vRepo == <<"i","n","b","o","x">>
vToken == <<"t","0","k">>
vHookA == <<"h",":","/","/","d","/","a">>
vHookB == <<"h",":","/","/","d","/","b">>

\* The messages of the handler specification.
\* Scenario A of the specification: plain headers, one body line.
mPlain == <<"F","r","o","m",":"," ","a","@","x",".","i","o","\n","S","u","b","j","e","c","t",":"," ","H","e","l","l","o","\n","\n","H","i"," ","t","h","e","r","e">>
\* An empty Subject header followed by another header line.
mEmptySubject == <<"S","u","b","j","e","c","t",":","\n","F","r","o","m",":"," ","A","n","n"," ","<","A","n","n","@","X",".","i","o",">","\n","\n","s","e","e"," ","c","i","d",":","i","1">>
\* No Subject header.
mNoSubject == <<"F","r","o","m",":"," ","a","@","x",".","i","o","\n","\n","H","i"," ","t","h","e","r","e">>
\* A white-space Subject header that ends the header block.
mBlankSubject == <<"F","r","o","m",":"," ","a","@","x",".","i","o","\n","S","u","b","j","e","c","t",":"," "," ","\n","\n","H","i"," ","t","h","e","r","e">>
\* A blank body.
mNoBody == <<"S","u","b","j","e","c","t",":"," ","H","e","l","l","o","\n","F","r","o","m",":"," ","B","o","b","\n","\n"," ","\n">>
\* References to inline images, a sender with a display name.
mCid == <<"S","u","b","j","e","c","t",":"," ","P","i","c","\n","F","r","o","m",":"," ","A","n","n"," ","<","A","n","n","@","X",".","i","o",">","\n","\n","s","e","e"," ","c","i","d",":","i","1"," ","a","n","d"," ","c","i","d",":","i","1","0">>
\* No From header.
mNoSender == <<"S","u","b","j","e","c","t",":"," ","H","e","l","l","o","\n","\n","H","i"," ","t","h","e","r","e">>
\* Scenario B: a multipart message with one text/html part.
mHtml == <<"S","u","b","j","e","c","t",":"," ","H","i","\n","F","r","o","m",":"," ","a","@","x",".","i","o","\n","C","o","n","t","e","n","t","-","T","y","p","e",":"," ","m","u","l","t","i","p","a","r","t","/","a","l","t","e","r","n","a","t","i","v","e",";"," ","b","o","u","n","d","a","r","y","=","\"","X","Y","Z","\"","\n","\n","-","-","X","Y","Z","\n","C","o","n","t","e","n","t","-","T","y","p","e",":"," ","t","e","x","t","/","h","t","m","l","\n","\n","<","p",">","H","e","l","l","o"," ","<","b",">","W","o","r","l","d","<","/","b",">","<","/","p",">","\n","-","-","X","Y","Z","-","-">>
\* Scenario E: no blank line.
mNoBlankLine == <<"S","u","b","j","e","c","t",":"," ","H","e","l","l","o","\n","F","r","o","m",":"," ","a","@","x",".","i","o">>

Inbox == {mPlain, mEmptySubject, mNoSubject, mBlankSubject, mNoBody, mCid,
          mNoSender, mHtml, mNoBlankLine}

\* The ways the stream delivers text m: in one chunk, or cut into n equal
\* chunks (the last takes the rest) for n up to MaxChunks; no chunk is empty.
ChunksOf(m, n) ==
    [k \in 1..n |-> SubSeq(m, (k - 1) * (Len(m) \div n) + 1,
                           IF k = n THEN Len(m) ELSE k * (Len(m) \div n))]

Streams(ms) ==
    {<<>>} \cup {ChunksOf(m, n) : m \in ms, n \in 1..MaxChunks}

\* Attachments as postal-mime reports them.
paPng == [mimeType |-> <<"i","m","a","g","e","/","p","n","g">>, filename |-> <<"a"," ","b",".","p","n","g">>,
          content |-> [kind |-> "ArrayBuffer", bytes |-> <<137, 80>>, text |-> <<>>],
          contentId |-> <<"i","1">>]
paJpegText == [mimeType |-> <<"i","m","a","g","e","/","j","p","e","g">>, filename |-> Undefined,
          content |-> [kind |-> "string", bytes |-> <<>>, text |-> <<"Q","U","J","D">>],
          contentId |-> Undefined]
paGifBad == [mimeType |-> <<"i","m","a","g","e","/","g","i","f">>, filename |-> <<"c",".","g","i","f">>,
          content |-> [kind |-> "string", bytes |-> <<>>, text |-> <<"Q","!","J","D">>],
          contentId |-> Undefined]
paPdf == [mimeType |-> <<"a","p","p","l","i","c","a","t","i","o","n","/","p","d","f">>, filename |-> <<"d",".","p","d","f">>,
          content |-> [kind |-> "ArrayBuffer", bytes |-> <<37>>, text |-> <<>>],
          contentId |-> Undefined]
paUntyped == [mimeType |-> Undefined, filename |-> <<"e">>,
          content |-> [kind |-> "other", bytes |-> <<>>, text |-> <<>>],
          contentId |-> Undefined]

\* An inline image without a file name.
paWebp == [mimeType |-> <<"i","m","a","g","e","/","w","e","b","p">>, filename |-> Undefined,
          content |-> [kind |-> "ArrayBuffer", bytes |-> <<82>>, text |-> <<>>],
          contentId |-> <<"i","2">>]

AttachmentPool == {paPng, paJpegText, paGifBad, paPdf, paUntyped, paWebp}

\* All sequences over S of length at most n.
SeqsUpTo(S, n) == UNION {[1..k -> S] : k \in 0..n}

\* What PostalMime#parse may answer: it rejects, or it reports attachments.
PostalAnswers ==
    {[threw |-> TRUE, attachments |-> <<>>]}
      \cup {[threw |-> FALSE, attachments |-> a] :
              a \in SeqsUpTo(AttachmentPool, MaxAttachments)}

\* The answers of the handler specification: a rejection, no attachment,
\* one image, images among other files, an image that does not decode.
HandlerAnswers ==
    {[threw |-> TRUE, attachments |-> <<>>],
     [threw |-> FALSE, attachments |-> <<>>],
     [threw |-> FALSE, attachments |-> <<paPng>>],
     [threw |-> FALSE, attachments |-> <<paPdf, paPng, paJpegText>>],
     [threw |-> FALSE, attachments |-> <<paGifBad, paPng>>]}

\* The answers of the Discord specification: up to MaxAttachments images.
DiscordAnswers ==
    {[threw |-> FALSE, attachments |-> a] :
        a \in SeqsUpTo({paPng, paWebp}, MaxAttachments)}

\* Bytes of the raw stream. A byte below 0x80 is written as its character;
\* the two bytes of the UTF-8 encoding of e-acute are the tokens below.
bC3 == "C3"
bA9 == "A9"
\* e-acute, and U+FFFD that TextDecoder puts for a malformed sequence.
kEAcute == "é"
kReplacement == "�"

\* Messages as bytes: e-acute in the subject and the body; a body that ends
\* inside a sequence; a continuation byte alone; a lead byte before a letter.
mbAccents == <<"S","u","b","j","e","c","t",":"," ","H",bC3,bA9,"\n","\n","c","a","f",bC3,bA9>>
mbTruncated == <<"S","u","b","j","e","c","t",":"," ","H","i","\n","\n","c","a","f",bC3>>
mbLoneContinuation == <<"S","u","b","j","e","c","t",":"," ","H","i","\n","\n","c",bA9,"f">>
mbBrokenLead == <<"S","u","b","j","e","c","t",":"," ","H","i","\n","\n",bC3,"c",bC3,bC3,bA9>>

ByteInbox == {mbAccents, mbTruncated, mbLoneContinuation, mbBrokenLead}

\* Every way to deliver m in at most n chunks, none of them empty.
RECURSIVE CutsOf(_, _)
CutsOf(m, n) ==
    IF m = <<>> THEN {<<>>}
    ELSE IF n = 1 THEN {<<m>>}
    ELSE {<<m>>} \cup
         UNION {{<<SubSeq(m, 1, c)>> \o rest :
                   rest \in CutsOf(SubSeq(m, c + 1, Len(m)), n - 1)} :
                c \in 1..(Len(m) - 1)}

ByteStreams == UNION {CutsOf(m, MaxChunks) : m \in ByteInbox}

\* What the user of the deploy wizard types: the mode, the answer to
\* "Proceed? [y/N]", the optional role id.
vGitHubTyped == <<"G","i","t","H","u","b">>
TypeAnswers == {<<>>, vGitHubTyped, vDiscord, kDiscord, vGitlab}
ConfirmAnswers == {<<>>, <<"y">>, <<"Y","e","s">>, <<"n">>, <<"n","y">>}
RoleAnswers == {<<>>, <<"4","2">>}

\* The wizard is not running.
WizardIdle ==
    [pc |-> "idle", typed |-> <<>>, type |-> <<>>, proceed |-> <<>>,
     roleId |-> <<>>, secrets |-> <<>>, commands |-> <<>>, exit |-> "none"]

\* The most parts of a multipart message.
MaxParts == 2

\* The header block of the multipart messages, declaring the boundary XYZ.
mMultipartHead == <<"S","u","b","j","e","c","t",":"," ","P","i","c","\n","F","r","o","m",":"," ","a","@","x",".","i","o","\n","C","o","n","t","e","n","t","-","T","y","p","e",":"," ","m","u","l","t","i","p","a","r","t","/","m","i","x","e","d",";"," ","b","o","u","n","d","a","r","y","=","\"","X","Y","Z","\"","\n","\n">>
\* A text/plain part that refers to an inline image.
ptText == <<"-","-","X","Y","Z","\n","C","o","n","t","e","n","t","-","T","y","p","e",":"," ","t","e","x","t","/","p","l","a","i","n","\n","\n","s","e","e"," ","c","i","d",":","i","1","\n">>
\* An inline image in base64 that decodes to three bytes.
ptPng == <<"-","-","X","Y","Z","\n","C","o","n","t","e","n","t","-","T","y","p","e",":"," ","i","m","a","g","e","/","p","n","g","\n","C","o","n","t","e","n","t","-","T","r","a","n","s","f","e","r","-","E","n","c","o","d","i","n","g",":"," ","b","a","s","e","6","4","\n","C","o","n","t","e","n","t","-","I","D",":"," ","<","i","1",">","\n","\n","Q","U","J","D","\n">>
\* An attached image whose base64 text holds a character outside the alphabet.
ptGifBad == <<"-","-","X","Y","Z","\n","C","o","n","t","e","n","t","-","T","y","p","e",":"," ","i","m","a","g","e","/","g","i","f","\n","C","o","n","t","e","n","t","-","D","i","s","p","o","s","i","t","i","o","n",":"," ","a","t","t","a","c","h","m","e","n","t",";"," ","f","i","l","e","n","a","m","e","=","\"","c",".","g","i","f","\"","\n","C","o","n","t","e","n","t","-","T","r","a","n","s","f","e","r","-","E","n","c","o","d","i","n","g",":"," ","b","a","s","e","6","4","\n","\n","Q","!","J","D","\n">>
\* An attached file that is no image.
ptPdf == <<"-","-","X","Y","Z","\n","C","o","n","t","e","n","t","-","T","y","p","e",":"," ","a","p","p","l","i","c","a","t","i","o","n","/","p","d","f","\n","C","o","n","t","e","n","t","-","D","i","s","p","o","s","i","t","i","o","n",":"," ","a","t","t","a","c","h","m","e","n","t",";"," ","f","i","l","e","n","a","m","e","=","d",".","p","d","f","\n","\n","J","V","B","E","\n">>
\* An inline image in quoted-printable.
ptSvg == <<"-","-","X","Y","Z","\n","C","o","n","t","e","n","t","-","T","y","p","e",":"," ","I","m","a","g","e","/","S","V","G","+","x","m","l","\n","C","o","n","t","e","n","t","-","D","i","s","p","o","s","i","t","i","o","n",":"," ","i","n","l","i","n","e",";"," ","f","i","l","e","n","a","m","e","=","e",".","s","v","g","\n","C","o","n","t","e","n","t","-","T","r","a","n","s","f","e","r","-","E","n","c","o","d","i","n","g",":"," ","q","u","o","t","e","d","-","p","r","i","n","t","a","b","l","e","\n","\n","<","a"," ","b","=","3","D","\"","c","\"","/",">","\n">>
\* An image part with neither a disposition nor a content id.
ptBare == <<"-","-","X","Y","Z","\n","C","o","n","t","e","n","t","-","T","y","p","e",":"," ","i","m","a","g","e","/","p","n","g","\n","C","o","n","t","e","n","t","-","T","r","a","n","s","f","e","r","-","E","n","c","o","d","i","n","g",":"," ","b","a","s","e","6","4","\n","\n","Q","U","J","D","\n">>
\* An inline image of a message with CRLF line ends.
ptCrlf == <<"-","-","X","Y","Z","\r","\n","C","o","n","t","e","n","t","-","T","y","p","e",":"," ","i","m","a","g","e","/","p","n","g","\r","\n","C","o","n","t","e","n","t","-","I","D",":"," ","<","i","2",">","\r","\n","\r","\n","Q","U","J","D","\r","\n">>
mMultipartClose == <<"-","-","X","Y","Z","-","-","\n">>

PartPool == {ptText, ptPng, ptGifBad, ptPdf, ptSvg, ptBare, ptCrlf}

RECURSIVE Concat(_)
Concat(ss) == IF ss = <<>> THEN <<>> ELSE ss[1] \o Concat(Tail(ss))

\* The multipart messages: the head, at most MaxParts parts, the closing
\* boundary; and one message that declares no boundary.
Multiparts ==
    {mMultipartHead \o Concat(ps) \o mMultipartClose : ps \in SeqsUpTo(PartPool, MaxParts)}
      \cup {mPlain}

\* The most lines of a message of the plain-text specification.
MaxLines == 3

\* A header line.
lSubject == <<"S","u","b","j","e","c","t",":"," ","H","i">>
\* The empty line.
lBlank == <<>>
\* A line of text with white space around it and a carriage return.
lText == <<" ","H","i"," ","t","h","e","r","e","\r">>
\* The signature delimiter of plain-text mail.
lSignature == <<"-","-"," ">>
\* Prose that starts with the word Content and a hyphen.
lContentWise == <<"C","o","n","t","e","n","t","-","w","i","s","e"," ","o","k">>
\* Text that holds a closing marker.
lMarker == <<"a"," ","-","-","1","f","-","-"," ","b">>
\* Text that holds an image placeholder.
lPlaceholder == <<"[","i","m","a","g","e",":"," ","x","]"," ","z">>

PlainVocabulary == {lSubject, lBlank, lText, lSignature, lContentWise, lMarker, lPlaceholder}

\* The messages of at most MaxLines lines over the vocabulary.
PlainMessages ==
    {JoinLines(ls) : ls \in UNION {[1..n -> PlainVocabulary] : n \in 1..MaxLines}}

\* The most segments after the header block of a message of the multipart
\* body specification.
MaxSegments == 4

\* The header block and the blank line that ends it.
sHead == <<"S","u","b","j","e","c","t",":"," ","H","i","\n","\n">>
\* A boundary line and the header block of a text/plain part.
sPlainOpen == <<"-","-","X","Y","Z","\n","C","o","n","t","e","n","t","-","T","y","p","e",":"," ","t","e","x","t","/","p","l","a","i","n","\n","\n">>
\* A boundary line and the header block of a text/html part.
sHtmlOpen == <<"-","-","X","Y","Z","\n","C","o","n","t","e","n","t","-","T","y","p","e",":"," ","t","e","x","t","/","h","t","m","l","\n","\n">>
\* A blank line.
sBlank == <<"\n">>
\* A line of text.
sText == <<"H","i","\n">>
\* A line of HTML (Scenario B).
sHtml == <<"<","p",">","H","e","l","l","o"," ","<","b",">","W","o","r","l","d","<","/","b",">","<","/","p",">","\n">>
\* The closing boundary line.
sClose == <<"-","-","X","Y","Z","-","-","\n">>

Segments == {sPlainOpen, sHtmlOpen, sBlank, sText, sHtml, sClose}

\* The header block followed by at most MaxSegments segments.
SegmentMessages ==
    {sHead \o Concat(ss) : ss \in SeqsUpTo(Segments, MaxSegments)}

EnvOf(type, user, repo, token, hookA, hookB) ==
    [TYPE |-> type, GITHUB_USERNAME |-> user, GITHUB_REPO |-> repo,
     GITHUB_TOKEN |-> token, DISCORD_WEBHOOK_URL |-> hookA, WEBHOOK_URL |-> hookB]

\* The configurations of the handler specification: each mode, complete and
\* with its credentials missing.
CoreEnvs ==
    {EnvOf(Undefined, vOwner, vRepo, vToken, Undefined, Undefined),
     EnvOf(vGitlab, vOwner, vRepo, Undefined, vHookA, Undefined),
     EnvOf(vDiscord, Undefined, Undefined, Undefined, Undefined, vHookB),
     EnvOf(kDiscord, vOwner, vRepo, vToken, Undefined, Undefined)}

\* The lines of the scanner specification: a boundary line, the Content-Type
\* lines of a plain, an HTML and an image part, and a line that starts with
\* two dashes and holds the text of a plain Content-Type.
lBoundary == <<"-","-","X","Y","Z">>
lPlainType == <<"C","o","n","t","e","n","t","-","T","y","p","e",":"," ","t","e","x","t","/","p","l","a","i","n">>
lHtmlType == <<"C","o","n","t","e","n","t","-","T","y","p","e",":"," ","t","e","x","t","/","h","t","m","l">>
lImageType == <<"C","o","n","t","e","n","t","-","T","y","p","e",":"," ","i","m","a","g","e","/","p","n","g">>
lOddBoundary == <<"-","-">> \o lPlainType

ScanVocabulary == {lBlank, lText, lBoundary, lPlainType, lHtmlType, lImageType, lOddBoundary}

\* Up to MaxLines lines of the vocabulary, as the whole message or after a
\* header block and its blank line.
ScanMessages ==
    {JoinLines(h \o ls) : h \in {<<>>, <<lSubject, lBlank>>},
                          ls \in SeqsUpTo(ScanVocabulary, MaxLines)}

\* The content lines of the part specification: text, the signature
\* delimiter of plain-text mail, a name, the empty line.
lHi == <<"H","i">>
lAnn == <<"A","n","n">>
PartVocabulary == {lHi, lSignature, lAnn, lBlank}

\* A multipart message with one text part of up to MaxLines content lines
\* between the part's header block and the closing boundary line.
PartMessages ==
    {mMultipartHead \o opener \o JoinLines(ls \o <<lBoundary \o <<"-","-">>, <<>>>>) :
        opener \in {sPlainOpen, sHtmlOpen},
        ls \in SeqsUpTo(PartVocabulary, MaxLines)}

\* Character references: an escaped ampersand, the rest of a less-than
\* reference, a less-than reference.
eAmp == <<"&","a","m","p",";">>
eLtTail == <<"l","t",";">>
eLt == <<"&","l","t",";">>

\* The most fragments of a body text of the cleanup specification.
MaxFragments == 3

\* A cid placeholder.
fCid == <<"[","c","i","d",":","x","]">>
\* The text of a Content-Type header.
fContentType == <<"C","o","n","t","e","n","t","-","T","y","p","e",":"," ","y">>
\* A closing marker.
fMarker == <<"-","-","1","f","-","-">>
\* Plain text.
fText == <<"H","i">>
fNewline == <<"\n">>
fSpace == <<" ">>
\* The opening of an image placeholder, and the closing bracket.
fImageOpen == <<"[","i","m","a","g","e",":"," ">>
fClose == <<"]">>

Fragments == {fCid, fContentType, fMarker, fText, fNewline, fSpace, fImageOpen, fClose}

\* The body texts made of at most MaxFragments fragments.
CleanupTexts == {Concat(fs) : fs \in SeqsUpTo(Fragments, MaxFragments)}

\* The most fragments of the HTML part of a message of the HTML specification.
MaxTags == 3

hBold == <<"<","b",">","W","<","/","b",">">>
hStrong == <<"<","s","t","r","o","n","g",">","W","<","/","s","t","r","o","n","g",">">>
hBr == <<"<","b","r",">">>
hBrSelf == <<"<","b","r","/",">">>
hLetter == <<"a">>
hSpan == <<"<","s","p","a","n",">">>
hSpanClose == <<"<","/","s","p","a","n",">">>

HtmlFragments == {hBold, hStrong, hBr, hBrSelf, hLetter, hSpan, hSpanClose}

\* The HTML-only multipart messages: the header block, one text/html part of
\* at most MaxTags fragments on one line, the closing boundary.
HtmlMessages ==
    {sHead \o sHtmlOpen \o Concat(fs) \o <<"\n">> \o sClose :
        fs \in SeqsUpTo(HtmlFragments, MaxTags)}

EntityFragments == {eAmp, eLtTail, eLt, hBr, hBold, hLetter}

\* The HTML-only multipart messages whose part is one line of at most MaxTags
\* fragments of character references, a line break, a bold element, a letter.
EntityMessages ==
    {sHead \o sHtmlOpen \o Concat(fs) \o <<"\n">> \o sClose :
        fs \in SeqsUpTo(EntityFragments, MaxTags)}

\* Header lines: a sender with a display name, a subject without text, and
\* header names in other letter cases.
lFrom == <<"F","r","o","m",":"," ","A","n","n"," ","<","a","@","x",".","i","o",">">>
lSubjectEmpty == <<"S","u","b","j","e","c","t",":">>
lSubjectLower == <<"s","u","b","j","e","c","t",":"," ","L","o">>
lFromUpper == <<"F","R","O","M",":"," ","b","@","x",".","i","o">>

HeaderVocabulary == {lFrom, lSubject, lSubjectEmpty, lSubjectLower, lFromUpper, lBlank, lText}

\* The messages of at most MaxLines lines over the header vocabulary.
HeaderMessages ==
    {JoinLines(ls) : ls \in UNION {[1..n -> HeaderVocabulary] : n \in 1..MaxLines}}

(***************************************************************************)
(* State                                                                   *)
(***************************************************************************)
VARIABLES
    wizard,             \* scripts/deploy.js: the deploy wizard's process
    env,                \* the handler's env argument
    pc,                 \* where the handler is
    mode,               \* (env.TYPE || 'github').toLowerCase(), once computed
    webhookUrl,         \* env.DISCORD_WEBHOOK_URL || env.WEBHOOK_URL
    outcome,            \* the handler's promise: pending, resolved, or the error
    skipped,            \* 'Skipping email due to empty subject or body' was logged
    stream,             \* message.raw: the chunks not yet read
    rawEmailContent,    \* streamToText's result so far
    decoder,            \* the bytes TextDecoder holds back in stream mode
    lines,              \* parseEmailContent's lines: rawEmail.split('\n')
    i,                  \* the scanner's loop index (1-based)
    scan,               \* the scanner's locals
    from, subject, body, attachments,   \* the ParsedEmail being built
    email,              \* what PostalMime#parse answered (parseAttachments' email)
    parts,              \* the boundary-splitting decoder's parts still to examine
    senderEmail, githubUser,
    left,               \* accounts of the current listing still to look up
    uploads,            \* per attachment: "flight", "ok" or "null"
    requests,           \* the network requests issued, in order
    failed,             \* the collaborators a request to which has failed,
                        \* and for "lookup" which of its requests
    published,          \* the payloads of the publish requests sent
    settled             \* the attachments whose upload has settled, in the
                        \* order the uploads settled

ctlVars == <<pc, mode, webhookUrl, outcome, skipped>>
streamVars == <<stream, rawEmailContent, decoder>>
scanVars == <<i, scan>>
parsedVars == <<from, subject, body, attachments, email>>
lookupVars == <<senderEmail, githubUser, left>>
netVars == <<uploads, requests, failed, published, settled>>
vars == <<wizard, env, parts, lines, ctlVars, streamVars, scanVars, parsedVars, lookupVars, netVars>>

InitWith(envs, streams) ==
    /\ wizard = WizardIdle
    /\ env \in envs
    /\ stream \in streams
    /\ pc = "start"
    /\ mode = Undefined
    /\ webhookUrl = Undefined
    /\ outcome = "pending"
    /\ skipped = FALSE
    /\ rawEmailContent = <<>>
    /\ decoder = <<>>
    /\ lines = <<>>
    /\ i = 1
    /\ scan = ScanInit
    /\ from = <<>> /\ subject = <<>> /\ body = <<>> /\ attachments = <<>>
    /\ email = [threw |-> FALSE, attachments |-> <<>>]
    /\ parts = <<>>
    /\ senderEmail = <<>> /\ githubUser = Null
    /\ left = 0
    /\ uploads = <<>>
    /\ requests = <<>>
    /\ failed = {}
    /\ published = <<>>
    /\ settled = <<>>

Init == InitWith(CoreEnvs, Streams(Inbox))

(***************************************************************************)
(* email(): mode dispatch and configuration check                          *)
(***************************************************************************)
\* A mode that keeps the letter case of TYPE.
ModeOf_CaseKept(e) == IF Truthy(e.TYPE) THEN e.TYPE ELSE kGithub

ModeOf(e) == ToLowerCase(IF Truthy(e.TYPE) THEN e.TYPE ELSE kGithub)

WebhookOf(e) ==
    IF Truthy(e.DISCORD_WEBHOOK_URL) THEN e.DISCORD_WEBHOOK_URL ELSE e.WEBHOOK_URL

\* A configuration check that leaves the token out.
ConfigError_TokenUnchecked(e) ==
    IF ModeOf(e) = kDiscord
    THEN IF ~Truthy(WebhookOf(e)) THEN "MissingDiscordEnvVariablesError" ELSE ""
    ELSE IF ~Truthy(e.GITHUB_USERNAME) \/ ~Truthy(e.GITHUB_REPO)
         THEN "MissingEnvVariablesError" ELSE ""

\* The error the configuration check throws, or "" when the check passes.
ConfigError(e) ==
    IF ModeOf(e) = kDiscord
    THEN IF ~Truthy(WebhookOf(e)) THEN "MissingDiscordEnvVariablesError" ELSE ""
    ELSE IF ~Truthy(e.GITHUB_USERNAME) \/ ~Truthy(e.GITHUB_REPO)
              \/ ~Truthy(e.GITHUB_TOKEN)
         THEN "MissingEnvVariablesError" ELSE ""

Dispatch ==
    /\ pc = "start"
    /\ mode' = ModeOf(env)
    /\ webhookUrl' = IF ModeOf(env) = kDiscord THEN WebhookOf(env) ELSE Undefined
    /\ IF ConfigError(env) # ""
       THEN pc' = "done" /\ outcome' = ConfigError(env)
       ELSE pc' = "read" /\ outcome' = outcome
    /\ UNCHANGED <<wizard, env, parts, lines, skipped, streamVars, scanVars, parsedVars, lookupVars, netVars>>

\* The error a throw inside createIssue's try block, or inside
\* sendDiscordNotification, rejects the handler with.
Rejection(m) == IF m = kDiscord THEN "Error" ELSE "CreateIssueError"

(***************************************************************************)
(* streamToText                                                            *)
(***************************************************************************)
\* TextDecoder#decode(value, { stream: last = FALSE }) with the bytes held
\* back by the call before: a byte below 0x80 is its character, a lead byte
\* and its continuation byte are one character, a malformed sequence is
\* U+FFFD, and a lead byte at the end is held back, or U+FFFD in the last
\* call.
Decode(held, value, last) ==
    LET bytes == held \o value
        n == Len(bytes)
        out(k) ==
            IF bytes[k] = bC3
            THEN IF k < n THEN IF bytes[k + 1] = bA9 THEN <<kEAcute>>
                               ELSE <<kReplacement>>
                 ELSE IF last THEN <<kReplacement>> ELSE <<>>
            ELSE IF bytes[k] = bA9
            THEN IF k > 1 /\ bytes[k - 1] = bC3 THEN <<>> ELSE <<kReplacement>>
            ELSE <<bytes[k]>>
    IN  IF \A k \in 1..n : bytes[k] \notin {bC3, bA9}
        THEN [text |-> bytes, pending |-> <<>>]
        ELSE [text |-> Concat([k \in 1..n |-> out(k)]),
              pending |-> IF ~last /\ bytes[n] = bC3 THEN <<bC3>> ELSE <<>>]

\* reader.read() returns the next chunk; TextDecoder appends its text.
ReadChunk ==
    /\ pc = "read"
    /\ stream # <<>>
    /\ rawEmailContent' = rawEmailContent \o Decode(decoder, Head(stream), FALSE).text
    /\ decoder' = Decode(decoder, Head(stream), FALSE).pending
    /\ stream' = Tail(stream)
    /\ UNCHANGED <<wizard, env, parts, lines, ctlVars, scanVars, parsedVars, lookupVars, netVars>>

\* A reader loop that may stop while chunks are left.
ReadDone_Early ==
    /\ pc = "read"
    /\ rawEmailContent' = rawEmailContent \o Decode(decoder, <<>>, TRUE).text
    /\ decoder' = <<>>
    /\ lines' = SplitLines(rawEmailContent')
    /\ pc' = "scan"
    /\ UNCHANGED <<wizard, env, parts, mode, webhookUrl, outcome, skipped, stream, scanVars,
                   parsedVars, lookupVars, netVars>>

\* reader.read() reports done: decoder.decode() flushes, and the text goes
\* to parseEmailContent.
ReadDone ==
    /\ pc = "read"
    /\ stream = <<>>
    /\ rawEmailContent' = rawEmailContent \o Decode(decoder, <<>>, TRUE).text
    /\ decoder' = <<>>
    /\ lines' = SplitLines(rawEmailContent')
    /\ pc' = "scan"
    /\ UNCHANGED <<wizard, env, parts, mode, webhookUrl, outcome, skipped, stream, scanVars,
                   parsedVars, lookupVars, netVars>>

\* reader.read() rejects.
ReadError ==
    /\ pc = "read"
    /\ pc' = "done"
    /\ outcome' = Rejection(mode)
    /\ UNCHANGED <<wizard, env, parts, lines, mode, webhookUrl, skipped, streamVars, scanVars,
                   parsedVars, lookupVars, netVars>>

(***************************************************************************)
(* parseEmailContent                                                       *)
(***************************************************************************)
ScanLine ==
    /\ pc = "scan"
    /\ i <= Len(lines)
    /\ scan' = ScanStep(scan, lines[i])
    /\ i' = i + 1
    /\ UNCHANGED <<wizard, env, parts, lines, ctlVars, streamVars, parsedVars, lookupVars, netVars>>

\* After the loop: From, Subject and the choice of the body text.
ChooseBody ==
    /\ pc = "scan"
    /\ i > Len(lines)
    /\ from' = HeaderValue(scan.headers, kFrom)
    /\ subject' = HeaderValue(scan.headers, kSubject)
    /\ body' = SelectBody(scan.textPlainLines, scan.textHtmlLines, rawEmailContent)
    /\ pc' = "cleanup"
    /\ UNCHANGED <<wizard, env, parts, lines, mode, webhookUrl, outcome, skipped, streamVars, scanVars,
                   attachments, email, lookupVars, netVars>>

Cleanup ==
    /\ pc = "cleanup"
    /\ body' = FinalCleanup(body)
    /\ pc' = "attach"
    /\ UNCHANGED <<wizard, env, parts, lines, mode, webhookUrl, outcome, skipped, streamVars, scanVars,
                   from, subject, attachments, email, lookupVars, netVars>>

\* await parseAttachments(rawEmail), and the return of the ParsedEmail. A
\* throw would leave parseEmailContent, which catches nothing, and reject
\* the caller.
ParseAttachments(answers) ==
    /\ pc = "attach"
    /\ \E answer \in answers :
         /\ email' = answer
         /\ attachments' = parseAttachments(answer).list
         /\ IF parseAttachments(answer).threw
            THEN pc' = "done" /\ outcome' = Rejection(mode)
            ELSE pc' = "check" /\ outcome' = outcome
    /\ UNCHANGED <<wizard, env, parts, lines, mode, webhookUrl, skipped, streamVars, scanVars,
                   from, subject, body, lookupVars, netVars>>

(***************************************************************************)
(* createIssue / sendDiscordNotification after the parse                   *)
(***************************************************************************)
Request(req, arg) == [req |-> req, arg |-> arg]

\* A request of the sender lookup, with what came back.
Answered(req, arg, answer) == [req |-> req, arg |-> arg, answer |-> answer]

\* A skip check that looks at the subject only.
IsSkip_SubjectOnly(subj, text) == Trim(subj) = <<>>

\* if (!parsedEmail.subject.trim() || !parsedEmail.body.trim()) return;
IsSkip(subj, text) == Trim(subj) = <<>> \/ Trim(text) = <<>>

SkipCheck ==
    /\ pc = "check"
    /\ IF IsSkip(subject, body)
       THEN /\ skipped' = TRUE
            /\ outcome' = "resolved"
            /\ pc' = "done"
            /\ senderEmail' = senderEmail
       ELSE /\ skipped' = skipped
            /\ outcome' = outcome
            /\ senderEmail' = extractEmailAddress(from)
            /\ pc' = IF mode = kDiscord THEN "upload" ELSE "owner"
    /\ UNCHANGED <<wizard, env, parts, lines, mode, webhookUrl, streamVars, scanVars, parsedVars,
                   githubUser, left, netVars>>

\* The login of the account looked up when n accounts of a listing are left.
Login(n) == <<"m", Digits[n + 1]>>

\* A first stage without the outer catch: a failed owner request rejects.
LookupOwner_Rethrows ==
    /\ pc = "owner"
    /\ IF ~Truthy(senderEmail)
       THEN /\ githubUser' = Null
            /\ pc' = "upload"
            /\ outcome' = outcome
            /\ requests' = requests
            /\ failed' = failed
       ELSE \E answer \in {"throws", "match", "User", "Organization"} :
                 /\ requests' = Append(requests,
                                  Answered("GET /users/{username}", env.GITHUB_USERNAME, answer))
                 /\ failed' = IF answer = "throws" THEN failed \cup {"lookup", "owner"}
                              ELSE failed
                 /\ githubUser' = IF answer = "match" THEN env.GITHUB_USERNAME ELSE Null
                 /\ outcome' = IF answer = "throws" THEN "CreateIssueError" ELSE outcome
                 /\ pc' = IF answer = "Organization" THEN "members"
                          ELSE IF answer = "User" THEN "collabs"
                          ELSE IF answer = "throws" THEN "done"
                          ELSE "upload"
    /\ UNCHANGED <<wizard, settled, env, parts, lines, mode, webhookUrl, skipped, streamVars, scanVars,
                   parsedVars, senderEmail, left, uploads, published>>

\* findGitHubUserByEmail, first stage: no request for an empty address, else
\* GET /users/{username} for the repository owner.
LookupOwner ==
    /\ pc = "owner"
    /\ IF ~Truthy(senderEmail)
       THEN /\ githubUser' = Null
            /\ pc' = "upload"
            /\ requests' = requests
            /\ failed' = failed
       ELSE \E answer \in {"throws", "match", "User", "Organization"} :
                 /\ requests' = Append(requests,
                                  Answered("GET /users/{username}", env.GITHUB_USERNAME, answer))
                 /\ failed' = IF answer = "throws" THEN failed \cup {"lookup", "owner"}
                              ELSE failed
                 /\ githubUser' = IF answer = "match" THEN env.GITHUB_USERNAME ELSE Null
                 /\ pc' = IF answer = "Organization" THEN "members"
                          ELSE IF answer = "User" THEN "collabs"
                          ELSE "upload"
    /\ UNCHANGED <<wizard, settled, env, parts, lines, mode, webhookUrl, outcome, skipped, streamVars, scanVars,
                   parsedVars, senderEmail, left, uploads, published>>

\* GET /orgs/{org}/members: it throws (caught, logged) or lists n accounts.
LookupMembers ==
    /\ pc = "members"
    /\ \E n \in 0..MaxAccounts, threw \in BOOLEAN :
         /\ requests' = Append(requests,
                          Answered("GET /orgs/{org}/members", env.GITHUB_USERNAME,
                                   IF threw THEN "throws" ELSE "listed"))
         /\ failed' = IF threw THEN failed \cup {"lookup", "members"} ELSE failed
         /\ left' = IF threw THEN 0 ELSE n
         /\ pc' = IF threw \/ n = 0 THEN "collabs" ELSE "member"
    /\ UNCHANGED <<wizard, settled, env, parts, lines, mode, webhookUrl, outcome, skipped, streamVars, scanVars,
                   parsedVars, senderEmail, githubUser, uploads, published>>

\* A loop over a listing that goes on after a match.
LookupAccount_KeepsLooking(listing, after) ==
    /\ pc = listing
    /\ left > 0
    /\ \E answer \in {"throws", "match", "other"} :
         /\ requests' = Append(requests,
                          Answered("GET /users/{username}", Login(left), answer))
         /\ failed' = IF answer = "throws" THEN failed \cup {"lookup", listing}
                      ELSE failed
         /\ githubUser' = IF answer = "match" THEN Login(left) ELSE githubUser
         /\ left' = left - 1
         /\ pc' = IF left = 1 THEN after ELSE listing
    /\ UNCHANGED <<wizard, settled, env, parts, lines, mode, webhookUrl, outcome, skipped, streamVars, scanVars,
                   parsedVars, senderEmail, uploads, published>>

\* GET /users/{username} for one listed account; listing names the pc the
\* loop belongs to and after the pc that follows the loop.
LookupAccount(listing, after) ==
    /\ pc = listing
    /\ left > 0
    /\ \E answer \in {"throws", "match", "other"} :
         /\ requests' = Append(requests,
                          Answered("GET /users/{username}", Login(left), answer))
         /\ failed' = IF answer = "throws" THEN failed \cup {"lookup", listing}
                      ELSE failed
         /\ IF answer = "match"
            THEN githubUser' = Login(left) /\ left' = 0 /\ pc' = "upload"
            ELSE /\ githubUser' = githubUser
                 /\ left' = left - 1
                 /\ pc' = IF left = 1 THEN after ELSE listing
    /\ UNCHANGED <<wizard, settled, env, parts, lines, mode, webhookUrl, outcome, skipped, streamVars, scanVars,
                   parsedVars, senderEmail, uploads, published>>

LookupMember == LookupAccount("member", "collabs")

\* GET /repos/{owner}/{repo}/collaborators.
LookupCollaborators ==
    /\ pc = "collabs"
    /\ \E n \in 0..MaxAccounts, threw \in BOOLEAN :
         /\ requests' = Append(requests,
                          Answered("GET /repos/{owner}/{repo}/collaborators",
                                   env.GITHUB_REPO, IF threw THEN "throws" ELSE "listed"))
         /\ failed' = IF threw THEN failed \cup {"lookup", "collabs"} ELSE failed
         /\ left' = IF threw THEN 0 ELSE n
         /\ pc' = IF threw \/ n = 0 THEN "upload" ELSE "collab"
    /\ UNCHANGED <<wizard, settled, env, parts, lines, mode, webhookUrl, outcome, skipped, streamVars, scanVars,
                   parsedVars, senderEmail, githubUser, uploads, published>>

LookupCollaborator == LookupAccount("collab", "upload")

\* The requests parsedEmail.attachments.map(...) issues: every callback runs
\* up to its fetch before map returns, so the uploads start in list order.
RECURSIVE UploadRequests(_)
UploadRequests(atts) ==
    IF atts = <<>> THEN <<>>
    ELSE <<Request("POST https://api.imgur.com/3/image", uniqueFileName(atts[1].filename))>>
           \o UploadRequests(Tail(atts))

StartUploads ==
    /\ pc = "upload"
    /\ uploads' = [k \in 1..Len(attachments) |-> "flight"]
    /\ requests' = requests \o UploadRequests(attachments)
    /\ pc' = "await"
    /\ UNCHANGED <<wizard, settled, env, parts, lines, mode, webhookUrl, outcome, skipped, streamVars, scanVars,
                   parsedVars, lookupVars, failed, published>>

\* What uploadImageToImgur returns for an answer of the image host: the link,
\* or null for an HTTP error, an unsuccessful result and a thrown exception.
UploadResult(answer) == IF answer = "link" THEN "ok" ELSE "null"

\* One upload settles, in any order.
UploadSettles ==
    /\ pc = "await"
    /\ \E k \in 1..Len(uploads), answer \in {"link", "httpError", "unsuccessful", "throws"} :
         /\ uploads[k] = "flight"
         /\ uploads' = [uploads EXCEPT ![k] = UploadResult(answer)]
         /\ settled' = Append(settled, k)
         /\ failed' = IF answer = "link" THEN failed ELSE failed \cup {"imgur"}
    /\ UNCHANGED <<wizard, env, parts, lines, ctlVars, streamVars, scanVars, parsedVars, lookupVars,
                   requests, published>>

AllSettled == \A k \in 1..Len(uploads) : uploads[k] # "flight"

\* A publisher that does not wait for the uploads.
SendPublish_Eager ==
    /\ pc = "await"
    /\ LET images == UploadedFrom(attachments, uploads, 1)
       IN  IF mode = kDiscord
           THEN /\ published' = Append(published, DiscordEmbed(subject, body, images))
                /\ requests' = Append(requests, Request("POST webhook", webhookUrl))
           ELSE /\ published' = Append(published,
                                  IssueParams(subject, body, images, githubUser, senderEmail))
                /\ requests' = Append(requests,
                                  Request("POST /repos/{owner}/{repo}/issues", env.GITHUB_REPO))
    /\ pc' = "publish"
    /\ UNCHANGED <<wizard, settled, env, parts, lines, mode, webhookUrl, outcome, skipped, streamVars, scanVars,
                   parsedVars, lookupVars, uploads, failed>>

\* The images of the uploads ks that gave a link, in the order of ks.
RECURSIVE ImagesOf(_)
ImagesOf(ks) ==
    IF ks = <<>> THEN <<>>
    ELSE (IF uploads[ks[1]] = "ok"
          THEN <<[originalName |-> attachments[ks[1]].filename,
                  uniqueFileName |-> uniqueFileName(attachments[ks[1]].filename),
                  imageUrl |-> ImageUrl(ks[1]),
                  cid |-> attachments[ks[1]].cid]>>
          ELSE <<>>) \o ImagesOf(Tail(ks))

\* A publisher that takes the images as their uploads settled.
SendPublish_AsSettled ==
    /\ pc = "await"
    /\ AllSettled
    /\ LET images == ImagesOf(settled)
       IN  IF mode = kDiscord
           THEN /\ published' = Append(published, DiscordEmbed(subject, body, images))
                /\ requests' = Append(requests, Request("POST webhook", webhookUrl))
           ELSE /\ published' = Append(published,
                                  IssueParams(subject, body, images, githubUser, senderEmail))
                /\ requests' = Append(requests,
                                  Request("POST /repos/{owner}/{repo}/issues", env.GITHUB_REPO))
    /\ pc' = "publish"
    /\ UNCHANGED <<wizard, settled, env, parts, lines, mode, webhookUrl, outcome, skipped, streamVars, scanVars,
                   parsedVars, lookupVars, uploads, failed>>

\* await Promise.all(...) returns; the payload is built and the request sent.
SendPublish ==
    /\ pc = "await"
    /\ AllSettled
    /\ LET images == UploadedFrom(attachments, uploads, 1)
       IN  IF mode = kDiscord
           THEN /\ published' = Append(published, DiscordEmbed(subject, body, images))
                /\ requests' = Append(requests, Request("POST webhook", webhookUrl))
           ELSE /\ published' = Append(published,
                                  IssueParams(subject, body, images, githubUser, senderEmail))
                /\ requests' = Append(requests,
                                  Request("POST /repos/{owner}/{repo}/issues", env.GITHUB_REPO))
    /\ pc' = "publish"
    /\ UNCHANGED <<wizard, settled, env, parts, lines, mode, webhookUrl, outcome, skipped, streamVars, scanVars,
                   parsedVars, lookupVars, uploads, failed>>

\* A publisher that does not look at the status of the response.
PublishOutcome_IgnoresStatus(m, answer) ==
    IF answer = "throws" THEN Rejection(m) ELSE "resolved"

\* How the handler's promise settles for an answer to the publish request:
\* octokit.request throws for an error status and for a network error, and
\* createIssue wraps it; fetch throws for a network error, and
\* sendDiscordNotification throws for a status that is not ok.
PublishOutcome(m, answer) ==
    IF answer = "ok" THEN "resolved" ELSE Rejection(m)

\* The collaborator the publish request goes to.
Publisher(m) == IF m = kDiscord THEN "webhook" ELSE "issue"

\* The publish request is answered: ok, an HTTP error status, or a throw.
PublishAnswer ==
    /\ pc = "publish"
    /\ \E answer \in {"ok", "notOk", "throws"} :
         /\ outcome' = PublishOutcome(mode, answer)
         /\ failed' = IF answer = "ok" THEN failed ELSE failed \cup {Publisher(mode)}
    /\ pc' = "done"
    /\ UNCHANGED <<wizard, settled, env, parts, lines, mode, webhookUrl, skipped, streamVars, scanVars,
                   parsedVars, lookupVars, uploads, requests, published>>

(***************************************************************************)
(* scripts/deploy.js: the deploy wizard                                    *)
(***************************************************************************)
\* (args.type || answer || 'github').toLowerCase(), and github for anything
\* that is neither github nor discord.
WizardType(answer) ==
    LET t == ToLowerCase(IF Truthy(answer) THEN answer ELSE kGithub)
    IN  IF t \in {kGithub, kDiscord} THEN t ELSE kGithub

\* The keys main stores for a mode, in order.
SecretsOf(type, roleId) ==
    IF type = kGithub
    THEN <<"TYPE", "GITHUB_USERNAME", "GITHUB_REPO", "GITHUB_TOKEN">>
    ELSE <<"TYPE", "DISCORD_WEBHOOK_URL">>
           \o (IF Truthy(roleId) THEN <<"DISCORD_MENTION_ROLE_ID">> ELSE <<>>)

\* The questions are answered; main asks "Proceed? [y/N]".
WizardConfirm ==
    /\ wizard.pc = "confirm"
    /\ wizard' = IF StartsWith(ToLowerCase(wizard.proceed), <<"y">>)
                 THEN [wizard EXCEPT !.pc = "secrets",
                                     !.secrets = SecretsOf(wizard.type, wizard.roleId)]
                 ELSE [wizard EXCEPT !.pc = "exited", !.exit = "1"]
    /\ UNCHANGED <<env, parts, lines, ctlVars, streamVars, scanVars, parsedVars,
                   lookupVars, netVars>>

\* How run() settles: the child closes with code 0, closes with another
\* code (run rejects and main().catch exits with 1), or cannot be spawned
\* (an 'error' event nobody listens to ends the process with code 1).
RunAnswers == {"0", "1", "error"}

\* A putSecret that goes on after a failed command.
WizardPutSecret_GoesOn ==
    /\ wizard.pc = "secrets"
    /\ wizard.secrets # <<>>
    /\ \E answer \in RunAnswers :
         wizard' = [wizard EXCEPT
                      !.commands = Append(@, [cmd |-> "wrangler secret put",
                                              key |-> Head(wizard.secrets),
                                              code |-> answer]),
                      !.secrets = Tail(@)]
    /\ UNCHANGED <<env, parts, lines, ctlVars, streamVars, scanVars, parsedVars,
                   lookupVars, netVars>>

\* await putSecret(name, key, value) for the next key.
WizardPutSecret ==
    /\ wizard.pc = "secrets"
    /\ wizard.secrets # <<>>
    /\ \E answer \in RunAnswers :
         wizard' = [wizard EXCEPT
                      !.commands = Append(@, [cmd |-> "wrangler secret put",
                                              key |-> Head(wizard.secrets),
                                              code |-> answer]),
                      !.secrets = IF answer = "0" THEN Tail(@) ELSE @,
                      !.pc = IF answer = "0" THEN @ ELSE "exited",
                      !.exit = IF answer = "0" THEN @ ELSE "1"]
    /\ UNCHANGED <<env, parts, lines, ctlVars, streamVars, scanVars, parsedVars,
                   lookupVars, netVars>>

\* await run('wrangler', ['deploy', '--name', name]) after the last secret.
WizardDeploy ==
    /\ wizard.pc = "secrets"
    /\ wizard.secrets = <<>>
    /\ \E answer \in RunAnswers :
         wizard' = [wizard EXCEPT
                      !.commands = Append(@, [cmd |-> "wrangler deploy",
                                              key |-> "--name", code |-> answer]),
                      !.pc = "exited",
                      !.exit = IF answer = "0" THEN "0" ELSE "1"]
    /\ UNCHANGED <<env, parts, lines, ctlVars, streamVars, scanVars, parsedVars,
                   lookupVars, netVars>>

(***************************************************************************)
(* Specifications                                                          *)
(***************************************************************************)
Next ==
    \/ Dispatch
    \/ ReadChunk \/ ReadDone \/ ReadError
    \/ ScanLine \/ ChooseBody \/ Cleanup \/ ParseAttachments(HandlerAnswers)
    \/ SkipCheck
    \/ LookupOwner \/ LookupMembers \/ LookupMember
    \/ LookupCollaborators \/ LookupCollaborator
    \/ StartUploads \/ UploadSettles \/ SendPublish \/ PublishAnswer

Spec == Init /\ [][Next]_vars

\* parseEmailContent alone, on a text already read, for every answer of
\* postal-mime.
InitDecode ==
    /\ wizard = WizardIdle
    /\ env = EnvOf(Undefined, vOwner, vRepo, vToken, Undefined, Undefined)
    /\ stream = <<>>
    /\ pc = "scan"
    /\ mode = kGithub
    /\ webhookUrl = Undefined
    /\ outcome = "pending"
    /\ skipped = FALSE
    /\ rawEmailContent \in Inbox
    /\ decoder = <<>>
    /\ lines = SplitLines(rawEmailContent)
    /\ i = 1
    /\ scan = ScanInit
    /\ from = <<>> /\ subject = <<>> /\ body = <<>> /\ attachments = <<>>
    /\ email = [threw |-> FALSE, attachments |-> <<>>]
    /\ parts = <<>>
    /\ senderEmail = <<>> /\ githubUser = Null
    /\ left = 0
    /\ uploads = <<>>
    /\ requests = <<>>
    /\ failed = {}
    /\ published = <<>>
    /\ settled = <<>>

\* The boundary-splitting parseAttachments: the boundary is looked up and the
\* text is split on it.
SplitParts ==
    /\ pc = "attach"
    /\ LET boundary == FirstCapture(rawEmailContent, BoundaryAt)
       IN  IF boundary = NoMatch
           THEN parts' = <<>> /\ pc' = "check"
           ELSE /\ parts' = SplitOn(rawEmailContent, kDashDash \o boundary)
                /\ pc' = "part"
    /\ UNCHANGED <<wizard, env, lines, mode, webhookUrl, outcome, skipped, streamVars, scanVars,
                   parsedVars, lookupVars, netVars>>

\* One iteration of the loop over parts.
ExaminePart ==
    /\ pc = "part"
    /\ parts # <<>>
    /\ \E lenient \in {"skip", "stop"} :
         attachments' = attachments \o PartAttachments(Head(parts), lenient)
    /\ parts' = Tail(parts)
    /\ UNCHANGED <<wizard, env, lines, ctlVars, streamVars, scanVars, from, subject, body, email,
                   lookupVars, netVars>>

\* The loop is over: the attachments are returned.
PartsDone ==
    /\ pc = "part"
    /\ parts = <<>>
    /\ pc' = "check"
    /\ UNCHANGED <<wizard, env, parts, lines, mode, webhookUrl, outcome, skipped, streamVars,
                   scanVars, parsedVars, lookupVars, netVars>>

\* parseEmailContent with the boundary-splitting parseAttachments, on the
\* multipart messages.
InitSplit ==
    /\ wizard = WizardIdle
    /\ env = EnvOf(Undefined, vOwner, vRepo, vToken, Undefined, Undefined)
    /\ stream = <<>>
    /\ pc = "scan"
    /\ mode = kGithub
    /\ webhookUrl = Undefined
    /\ outcome = "pending"
    /\ skipped = FALSE
    /\ rawEmailContent \in Multiparts
    /\ decoder = <<>>
    /\ lines = SplitLines(rawEmailContent)
    /\ i = 1
    /\ scan = ScanInit
    /\ from = <<>> /\ subject = <<>> /\ body = <<>> /\ attachments = <<>>
    /\ email = [threw |-> FALSE, attachments |-> <<>>]
    /\ parts = <<>>
    /\ senderEmail = <<>> /\ githubUser = Null
    /\ left = 0
    /\ uploads = <<>>
    /\ requests = <<>>
    /\ failed = {}
    /\ published = <<>>
    /\ settled = <<>>

NextSplit ==
    ScanLine \/ ChooseBody \/ Cleanup \/ SplitParts \/ ExaminePart \/ PartsDone

SpecSplit == InitSplit /\ [][NextSplit]_vars

\* The body decoding of parseEmailContent alone: the scanner, the choice of
\* the body and the final cleanup, on a text already read.
InitBody(messages) ==
    /\ wizard = WizardIdle
    /\ env = EnvOf(Undefined, vOwner, vRepo, vToken, Undefined, Undefined)
    /\ stream = <<>>
    /\ pc = "scan"
    /\ mode = kGithub
    /\ webhookUrl = Undefined
    /\ outcome = "pending"
    /\ skipped = FALSE
    /\ rawEmailContent \in messages
    /\ decoder = <<>>
    /\ lines = SplitLines(rawEmailContent)
    /\ i = 1
    /\ scan = ScanInit
    /\ from = <<>> /\ subject = <<>> /\ body = <<>> /\ attachments = <<>>
    /\ email = [threw |-> FALSE, attachments |-> <<>>]
    /\ parts = <<>>
    /\ senderEmail = <<>> /\ githubUser = Null
    /\ left = 0
    /\ uploads = <<>>
    /\ requests = <<>>
    /\ failed = {}
    /\ published = <<>>
    /\ settled = <<>>

NextBody == ScanLine \/ ChooseBody \/ Cleanup

InitPlain == InitBody(PlainMessages)

SpecPlain == InitPlain /\ [][NextBody]_vars

InitSegments == InitBody(SegmentMessages)

SpecSegments == InitSegments /\ [][NextBody]_vars

NextDecode == ScanLine \/ ChooseBody \/ Cleanup \/ ParseAttachments(PostalAnswers)

SpecDecode == InitDecode /\ [][NextDecode]_vars

\* Every combination of set and unset configuration variables, over one
\* message that is published.
AllEnvs ==
    {EnvOf(type, user, repo, token, hookA, hookB) :
        type \in {Undefined, <<>>, vDiscord, kDiscord, vGitlab},
        user \in {Undefined, vOwner},
        repo \in {Undefined, vRepo},
        token \in {Undefined, <<>>, vToken},
        hookA \in {Undefined, vHookA},
        hookB \in {Undefined, vHookB}}

InitConfig == InitWith(AllEnvs, {<<mPlain>>})

SpecConfig == InitConfig /\ [][Next]_vars

\* The final cleanup alone, on a body text already chosen.
InitCleanup ==
    /\ wizard = WizardIdle
    /\ env = EnvOf(Undefined, vOwner, vRepo, vToken, Undefined, Undefined)
    /\ stream = <<>>
    /\ pc = "cleanup"
    /\ mode = kGithub
    /\ webhookUrl = Undefined
    /\ outcome = "pending"
    /\ skipped = FALSE
    /\ rawEmailContent = <<>>
    /\ decoder = <<>>
    /\ lines = <<>>
    /\ i = 1
    /\ scan = ScanInit
    /\ from = <<>> /\ subject = <<>> /\ attachments = <<>>
    /\ body \in CleanupTexts
    /\ email = [threw |-> FALSE, attachments |-> <<>>]
    /\ parts = <<>>
    /\ senderEmail = <<>> /\ githubUser = Null
    /\ left = 0
    /\ uploads = <<>>
    /\ requests = <<>>
    /\ failed = {}
    /\ published = <<>>
    /\ settled = <<>>

NextCleanup == Cleanup

SpecCleanup == InitCleanup /\ [][NextCleanup]_vars

\* The body decoding on the HTML-only multipart messages.
InitHtml == InitBody(HtmlMessages)

SpecHtml == InitHtml /\ [][NextBody]_vars

\* parseEmailContent and the skip check of the caller, on the messages over
\* the header vocabulary.
InitHeaders == InitBody(HeaderMessages)

NextHeaders ==
    ScanLine \/ ChooseBody \/ Cleanup \/ ParseAttachments(HandlerAnswers) \/ SkipCheck

SpecHeaders == InitHeaders /\ [][NextHeaders]_vars

\* sendDiscordNotification for one message, with up to MaxAttachments images.
InitDiscord ==
    InitWith({EnvOf(vDiscord, Undefined, Undefined, Undefined, Undefined, vHookB)},
             Streams({mPlain}))

NextDiscord ==
    \/ Dispatch
    \/ ReadChunk \/ ReadDone \/ ReadError
    \/ ScanLine \/ ChooseBody \/ Cleanup \/ ParseAttachments(DiscordAnswers)
    \/ SkipCheck
    \/ StartUploads \/ UploadSettles \/ SendPublish \/ PublishAnswer

SpecDiscord == InitDiscord /\ [][NextDiscord]_vars

\* streamToText and parseEmailContent in both modes, on byte streams cut at
\* every position.
InitStream ==
    InitWith({EnvOf(Undefined, vOwner, vRepo, vToken, Undefined, Undefined),
              EnvOf(vDiscord, Undefined, Undefined, Undefined, Undefined, vHookB)},
             ByteStreams)

NextStream ==
    \/ Dispatch
    \/ ReadChunk \/ ReadDone \/ ReadError
    \/ ScanLine \/ ChooseBody \/ Cleanup \/ ParseAttachments(HandlerAnswers)
    \/ SkipCheck

SpecStream == InitStream /\ [][NextStream]_vars

\* parseEmailContent alone, where a step that can be taken is taken: the
\* loops go on and the awaited parseAttachments settles.
InitParse == InitBody(Inbox \cup HeaderMessages)

NextParse == ScanLine \/ ChooseBody \/ Cleanup \/ ParseAttachments(HandlerAnswers)

\* A step of parseEmailContent, by what it does to the position: the next
\* line of the loop, the end of the loop, the cleanup, the return.
ParseProgress ==
    \/ pc = "scan" /\ i <= Len(lines) /\ i' = i + 1 /\ pc' = pc
    \/ pc = "scan" /\ i > Len(lines) /\ pc' = "cleanup" /\ i' = i
    \/ pc = "cleanup" /\ pc' = "attach" /\ i' = i
    \/ pc = "attach" /\ pc' = "check" /\ i' = i

SpecParse == InitParse /\ [][NextParse]_vars /\ WF_<<pc, i>>(ParseProgress)

\* The deploy wizard, for every answer to its questions.
InitWizard ==
    /\ \E typed \in TypeAnswers, proceed \in ConfirmAnswers, roleId \in RoleAnswers :
         wizard = [WizardIdle EXCEPT !.pc = "confirm", !.typed = typed,
                                     !.type = WizardType(typed),
                                     !.proceed = proceed, !.roleId = roleId]
    /\ env = EnvOf(Undefined, vOwner, vRepo, vToken, Undefined, Undefined)
    /\ stream = <<>>
    /\ pc = "done"
    /\ mode = Undefined
    /\ webhookUrl = Undefined
    /\ outcome = "pending"
    /\ skipped = FALSE
    /\ rawEmailContent = <<>>
    /\ decoder = <<>>
    /\ lines = <<>>
    /\ i = 1
    /\ scan = ScanInit
    /\ from = <<>> /\ subject = <<>> /\ body = <<>> /\ attachments = <<>>
    /\ email = [threw |-> FALSE, attachments |-> <<>>]
    /\ parts = <<>>
    /\ senderEmail = <<>> /\ githubUser = Null
    /\ left = 0
    /\ uploads = <<>>
    /\ requests = <<>>
    /\ failed = {}
    /\ published = <<>>
    /\ settled = <<>>

NextWizard == WizardConfirm \/ WizardPutSecret \/ WizardDeploy

SpecWizard == InitWizard /\ [][NextWizard]_vars

\* The line scanner of parseEmailContent on every message of the scanner
\* vocabulary.
InitScan == InitBody(ScanMessages)

NextScan == ScanLine \/ ChooseBody

SpecScan == InitScan /\ [][NextScan]_vars

\* The line scanner on the messages with one text part.
InitParts == InitBody(PartMessages)

SpecParts == InitParts /\ [][NextScan]_vars

\* The line scanner and the choice of the body on the messages with
\* character references.
InitEntities == InitBody(EntityMessages)

SpecEntities == InitEntities /\ [][NextScan]_vars

(***************************************************************************)
(* Properties                                                              *)
(***************************************************************************)
\* parseEmailContent has returned its ParsedEmail to the caller.
Parsed ==
    /\ pc \notin {"start", "read", "scan", "cleanup", "attach", "check"}
    /\ lines # <<>>
    /\ i > Len(lines)

\* The header block of a message: the lines before its first blank line.
HeaderBlock(raw) ==
    LET ls == SplitLines(raw)
        blanks == {k \in 1..Len(ls) : IsBlank(ls[k])}
    IN  IF blanks = {} THEN ls
        ELSE SubSeq(ls, 1, (CHOOSE k \in blanks : \A j \in blanks : k <= j) - 1)

\* The message has no Subject header, or the text after the name of its
\* first Subject header is empty or white space.
SubjectBlank(raw) ==
    LET hs == HeaderBlock(raw)
        at == {k \in 1..Len(hs) : StartsWith(hs[k], kSubject)}
    IN  \/ at = {}
        \/ LET k == CHOOSE k \in at : \A j \in at : k <= j
           IN  IsBlank(SubSeq(hs[k], Len(kSubject) + 1, Len(hs[k])))

\* C1. Skip law: a message whose Subject header is missing, empty or white
\* space, or whose body is empty after normalization, is skipped: no issue is
\* created and no webhook is posted for it.
C1_SkipLaw ==
    published # <<>> => ~SubjectBlank(rawEmailContent) /\ Trim(body) # <<>>

\* C2. When the parsed subject or the parsed body is empty after trimming,
\* the handler completes without throwing, and sends no lookup, no upload
\* and no publish request.
C2_SkipCompletes ==
    Parsed /\ (Trim(subject) = <<>> \/ Trim(body) = <<>>)
      => /\ pc = "done"
         /\ outcome = "resolved"
         /\ requests = <<>>
         /\ uploads = <<>>
         /\ published = <<>>
    /\ settled = <<>>

\* A message with a subject, images and a blank body has been skipped.
C2_Witness ==
    /\ Parsed /\ pc = "done"
    /\ Trim(subject) # <<>> /\ Trim(body) = <<>>
    /\ attachments # <<>>

Unset(v) == v = Undefined \/ v = <<>>

DiscordType(e) == ~Unset(e.TYPE) /\ ToLowerCase(e.TYPE) = kDiscord

\* Nothing of the message has been read, parsed or sent.
Untouched ==
    /\ rawEmailContent = <<>> /\ lines = <<>> /\ i = 1 /\ scan = ScanInit
    /\ requests = <<>> /\ published = <<>>

\* C3. In GitHub mode with GITHUB_USERNAME, GITHUB_REPO or GITHUB_TOKEN
\* unset the handler fails with MissingEnvVariablesError, and in Discord mode
\* with neither DISCORD_WEBHOOK_URL nor WEBHOOK_URL set it fails with
\* MissingDiscordEnvVariablesError, in both cases before the stream is read.
C3_ConfigurationErrors ==
    pc # "start" =>
      /\ ~DiscordType(env)
           /\ (Unset(env.GITHUB_USERNAME) \/ Unset(env.GITHUB_REPO)
                 \/ Unset(env.GITHUB_TOKEN))
           => pc = "done" /\ outcome = "MissingEnvVariablesError" /\ Untouched
      /\ DiscordType(env)
           /\ Unset(env.DISCORD_WEBHOOK_URL) /\ Unset(env.WEBHOOK_URL)
           => pc = "done" /\ outcome = "MissingDiscordEnvVariablesError"
                /\ Untouched

\* GitHub mode has failed for the token alone, with a stream to read.
C3_Witness ==
    /\ pc = "done" /\ outcome = "MissingEnvVariablesError"
    /\ ~Unset(env.GITHUB_USERNAME) /\ ~Unset(env.GITHUB_REPO)
    /\ Unset(env.GITHUB_TOKEN)
    /\ stream # <<>>

\* The requests of the log that went to one of the given endpoints.
RequestsTo(endpoints) ==
    {k \in 1..Len(requests) : requests[k].req \in endpoints}

PublishEndpoints == {"POST webhook", "POST /repos/{owner}/{repo}/issues"}

Shows(payload, url) ==
    IF payload.kind = "issue"
    THEN Includes(payload.body, <<"]", "(">> \o url \o <<")">>)
    ELSE payload.image = url \/ Includes(payload.description, <<":", " ">> \o url)

PayloadText(payload) ==
    IF payload.kind = "issue" THEN payload.body ELSE payload.description

ImagePart(a) == a.mimeType # Undefined /\ StartsWith(a.mimeType, kImageSlash)

\* A part whose content is base64 text that does not decode.
DecodeFails(a) == a.content.kind = "string" /\ atob(a.content.text).threw

IsSoundImage(a) == ImagePart(a) /\ ~DecodeFails(a)

\* C6. A decode failure of one attachment part drops that part only: every
\* other image part of the message, before or after the failing one, is in
\* the attachment list, in order.
C6_DecodeFailureIsolated ==
    pc = "check" /\ ~email.threw =>
      LET sound == SelectSeq(email.attachments, IsSoundImage)
      IN  /\ Len(attachments) = Len(sound)
          /\ \A k \in 1..Len(sound) :
                /\ attachments[k].contentType = sound[k].mimeType
                /\ attachments[k].cid = sound[k].contentId

\* C8. Every attachment of the decoder's output has a content type that
\* starts with image/, and is one of the image parts of the message: no part
\* of another type is emitted.
C8_OnlyImages ==
    \A k \in 1..Len(attachments) :
       /\ Len(attachments[k].contentType) >= 6
       /\ SubSeq(attachments[k].contentType, 1, 6) = <<"i","m","a","g","e","/">>

\* Images were emitted for a message that also has parts of other types and
\* parts without a type.
C8_Witness ==
    /\ pc = "check" /\ attachments # <<>>
    /\ \E j, k \in 1..Len(email.attachments) :
          /\ email.attachments[j].mimeType = Undefined
          /\ email.attachments[k].mimeType # Undefined
          /\ ~StartsWith(email.attachments[k].mimeType, kImageSlash)

\* The parts of a multipart message: the segments between its boundary lines.
PartsOf(raw) ==
    LET boundary == FirstCapture(raw, BoundaryAt)
    IN  IF boundary = NoMatch THEN <<>> ELSE SplitOn(raw, kDashDash \o boundary)

\* The text of a part after its header block.
PartBody(part) ==
    LET h == IndexOfFrom(part, kBlankLine, 1)
    IN  IF h = 0 \/ h > Len(part) THEN <<>>
        ELSE Trim(SubSeq(part, h + 2, Len(part)))

\* An image part in base64 whose body holds a character that is neither of
\* the base64 alphabet, nor padding, nor white space.
InvalidBase64Image(part) ==
    /\ FirstCapture(part, ContentTypeAt) # NoMatch
    /\ StartsWith(ToLowerCase(FirstCapture(part, ContentTypeAt)), kImageSlash)
    /\ FirstCapture(part, ContentTransferEncodingAt) # NoMatch
    /\ ToLowerCase(FirstCapture(part, ContentTransferEncodingAt)) = kBase64
    /\ \E k \in 1..Len(PartBody(part)) :
          LET c == PartBody(part)[k]
          IN  c \notin WS /\ c # "=" /\ ~IsB64(c)

\* The file name the decoder gives a part.
PartName(part) ==
    IF FirstCapture(part, ContentDispositionAt) # NoMatch
    THEN FirstCapture(part, ContentDispositionAt)
    ELSE FirstCapture(part, ContentIdAt)

\* C7. Scenario D: an attachment whose base64 body holds invalid characters
\* is absent from the output list, and subject, from and body are what the
\* header and body decoding gave: attachment extraction changes none of them.
C7_InvalidBase64Absent ==
    pc = "check" =>
      /\ \A p \in 1..Len(PartsOf(rawEmailContent)) :
            InvalidBase64Image(PartsOf(rawEmailContent)[p]) =>
              \A k \in 1..Len(attachments) :
                 attachments[k].filename # PartName(PartsOf(rawEmailContent)[p])
      /\ from = HeaderValue(scan.headers, kFrom)
      /\ subject = HeaderValue(scan.headers, kSubject)
      /\ body = FinalCleanup(SelectBody(scan.textPlainLines, scan.textHtmlLines,
                                        rawEmailContent))

\* The lines of a message after its first blank line.
BodyLines(raw) ==
    LET ls == SplitLines(raw)
        blanks == {k \in 1..Len(ls) : IsBlank(ls[k])}
    IN  IF blanks = {} THEN <<>>
        ELSE SubSeq(ls, Least(blanks) + 1, Len(ls))

\* A plain-text-only message with a body after a blank line: no line of it
\* is a MIME header of a part.
PlainTextOnly(raw) ==
    /\ \E k \in 1..Len(SplitLines(raw)) : IsBlank(SplitLines(raw)[k])
    /\ \A k \in 1..Len(SplitLines(raw)) :
          /\ ~Includes(SplitLines(raw)[k], kContentType)
          /\ ~Includes(SplitLines(raw)[k], kContentTransferEncoding)

\* C9 as stated: the body of a plain-text-only message is its body text with
\* the surrounding white space trimmed and the blank lines removed: every
\* non-blank line is kept, unchanged and in order, and nothing is added.
C9_EveryLineKept ==
    pc = "attach" /\ PlainTextOnly(rawEmailContent) =>
      body = Trim(JoinLines(NonBlankLines(BodyLines(rawEmailContent))))

\* Whether the text holds -- followed by lower-case hexadecimal digits and --.
HasClosingMarker(t) ==
    \E a \in 1..Len(t) :
       /\ StartsWithAt(t, kDashDash, a)
       /\ RunEnd(t, a + 2, HexLower) > a + 2
       /\ StartsWithAt(t, kDashDash, RunEnd(t, a + 2, HexLower))

\* Whether the text holds the opening of an image or cid placeholder.
HasPlaceholder(t) ==
    \E a \in 1..Len(t) :
       StartsWithAtI(t, kImageOpen, a) \/ StartsWithAtI(t, kCidOpen, a)

\* The non-blank lines that start neither with two dashes nor with Content-.
KeptLines(ls) ==
    SelectSeq(ls, LAMBDA l : ~IsBlank(l) /\ ~StartsWith(l, kDashDash)
                               /\ ~StartsWith(l, kContentDash))

\* C9, amended. The body of a plain-text-only message whose body text holds
\* no closing marker and no image or cid placeholder is made of the non-blank
\* lines of the body text that start neither with -- nor with Content-,
\* unchanged and in order, with the surrounding white space trimmed; nothing
\* else is added, and the lines starting with -- or Content- are dropped.
C9_LinesKeptButDashAndContent ==
    pc = "attach" /\ PlainTextOnly(rawEmailContent)
      /\ (\A k \in 1..Len(BodyLines(rawEmailContent)) :
             /\ ~HasClosingMarker(BodyLines(rawEmailContent)[k])
             /\ ~HasPlaceholder(BodyLines(rawEmailContent)[k]))
      => body = Trim(JoinLines(KeptLines(BodyLines(rawEmailContent))))

\* A body was decoded from a text line after a dropped signature delimiter.
C9_Witness ==
    /\ pc = "attach" /\ PlainTextOnly(rawEmailContent)
    /\ BodyLines(rawEmailContent) = <<lSignature, lText>>
    /\ body = Trim(lText)

\* C10. Body selection is 'first non-empty wins': the plain-text bucket if it
\* is not empty after trimming, else the HTML bucket converted to markdown if
\* it is not empty after trimming, else the fallback extraction; a blank
\* text/plain part next to a text/html part with content gives the
\* HTML-derived body.
C10_FirstNonEmptyWins ==
    pc = "cleanup" =>
      LET plain == Trim(JoinLines(scan.textPlainLines))
          html == Trim(JoinLines(scan.textHtmlLines))
      IN  body = IF plain # <<>> THEN plain
                 ELSE IF html # <<>> THEN convertHtmlToMarkdown(html)
                 ELSE Trim(JoinLines(FallbackLines(SplitLines(rawEmailContent), FALSE)))

\* C11. The final normalization pass is idempotent: applied to its own
\* output, it returns that output unchanged.
C11_CleanupIdempotent ==
    pc = "attach" => FinalCleanup(body) = body

\* The markdown the HTML text h stands for: the bold and strong tags are the
\* bold marker, a line break tag is a newline, every other tag is dropped.
Markdown(h) ==
    LET t1 == ReplaceAllFrom(h, <<"<","b",">">>, kStarStar, TRUE, 1)
        t2 == ReplaceAllFrom(t1, <<"<","/","b",">">>, kStarStar, TRUE, 1)
        t3 == ReplaceAllFrom(t2, <<"<","s","t","r","o","n","g",">">>, kStarStar, TRUE, 1)
        t4 == ReplaceAllFrom(t3, <<"<","/","s","t","r","o","n","g",">">>, kStarStar, TRUE, 1)
        t5 == ReplaceAllFrom(t4, <<"<","b","r",">">>, kNewline, TRUE, 1)
        t6 == ReplaceAllFrom(t5, <<"<","b","r","/",">">>, kNewline, TRUE, 1)
    IN  StripTagsFrom(t6, 1)

\* The message has a text/html part with content and no text/plain part.
HtmlOnly == scan.textPlainLines = <<>> /\ scan.textHtmlLines # <<>>

\* C12. For every HTML-only multipart message, <b>X</b> and <strong>X</strong>
\* decode to **X** and every <br> or <br/> decodes to a newline, whatever
\* other tags surround them: the body is the markdown of the HTML part, with
\* the blank lines dropped and the surrounding white space trimmed.
C12_BoldAndBreaks ==
    pc = "attach" /\ HtmlOnly =>
      body = FinalCleanup(Trim(Markdown(Trim(JoinLines(scan.textHtmlLines)))))

\* No line of the message is empty after trimming.
NoBlankLine(raw) ==
    \A k \in 1..Len(SplitLines(raw)) : ~IsBlank(SplitLines(raw)[k])

\* C13. For a message without a line that is empty after trimming, the
\* header block is the whole message, From and Subject are extracted from it,
\* both part buckets are empty, the fallback collects nothing, the body is
\* empty, and the handler skips the message.
C13_NoBlankLineSkips ==
    NoBlankLine(rawEmailContent) =>
      /\ scan.headerSection
      /\ scan.textPlainLines = <<>> /\ scan.textHtmlLines = <<>>
      /\ body = <<>>
      /\ pc \in {"scan", "cleanup", "attach", "check", "done"}
      /\ pc = "scan" /\ i > Len(lines) => scan.headers = rawEmailContent \o <<"\n">>
      /\ pc # "scan" =>
           /\ from = HeaderValue(rawEmailContent \o <<"\n">>, kFrom)
           /\ subject = HeaderValue(rawEmailContent \o <<"\n">>, kSubject)
      /\ pc = "done" =>
           skipped /\ outcome = "resolved" /\ requests = <<>> /\ published = <<>>

\* A message of a From line and a Subject line, with images, was skipped.
C13_Witness ==
    /\ NoBlankLine(rawEmailContent)
    /\ pc = "done" /\ skipped
    /\ from = <<"A","n","n"," ","<","a","@","x",".","i","o",">">>
    /\ subject = <<"H","i">>
    /\ attachments # <<>>

\* The trimmed remainder of the first line of the header block of raw that
\* starts with name, and the empty string when there is no such line.
FirstHeaderRemainder(raw, name) ==
    LET hs == HeaderBlock(raw)
        at == {k \in 1..Len(hs) : StartsWith(hs[k], name)}
    IN  IF at = {} THEN <<>>
        ELSE Trim(SubSeq(hs[Least(at)], Len(name) + 1, Len(hs[Least(at)])))

\* C14. from and subject are each the trimmed remainder of the first line of
\* the header block that starts with From: / Subject:, and the empty string
\* when there is no such line or its remainder is blank; text of another line
\* is never the value.
C14_SingleLineHeaders ==
    pc # "scan" =>
      /\ from = FirstHeaderRemainder(rawEmailContent, kFrom)
      /\ subject = FirstHeaderRemainder(rawEmailContent, kSubject)

\* The line with the name of a From or Subject header in its usual letter case.
UsualCase(line) ==
    IF StartsWithAtI(line, kFrom, 1)
    THEN kFrom \o SubSeq(line, Len(kFrom) + 1, Len(line))
    ELSE IF StartsWithAtI(line, kSubject, 1)
    THEN kSubject \o SubSeq(line, Len(kSubject) + 1, Len(line))
    ELSE line

\* The text that differs from h only in the letter case of its From and
\* Subject header names, which are From and Subject.
UsualCaseHeaders(h) ==
    JoinLines([k \in 1..Len(SplitLines(h)) |-> UsualCase(SplitLines(h)[k])])

\* C15. Header lookups are case-insensitive in the header name: a message
\* decodes to the from and subject of the message that differs from it only
\* in the letter case of the From and Subject header names.
C15_HeaderNamesAnyCase ==
    pc # "scan" =>
      /\ from = HeaderValue(UsualCaseHeaders(scan.headers), kFrom)
      /\ subject = HeaderValue(UsualCaseHeaders(scan.headers), kSubject)

\* The characters a content id is written with.
CidChars == Alnum \cup {".", "-", "_", "@"}

\* The text with every reference cid:c to exactly the content id c replaced
\* by url, scanning from position a: a longer content id that starts with c is
\* another reference.
RECURSIVE ReplaceReferenceFrom(_, _, _, _)
ReplaceReferenceFrom(text, c, url, a) ==
    LET ref  == kCid \o c
        hits == {j \in a..Len(text) :
                    /\ StartsWithAt(text, ref, j)
                    /\ j + Len(ref) > Len(text) \/ text[j + Len(ref)] \notin CidChars}
    IN  IF hits = {} THEN SubSeq(text, a, Len(text))
        ELSE SubSeq(text, a, Least(hits) - 1) \o url
               \o ReplaceReferenceFrom(text, c, url, Least(hits) + Len(ref))

\* The text with the references to the images from the k-th attachment on
\* that were uploaded replaced by their hosted links.
RECURSIVE WithHostedLinks(_, _)
WithHostedLinks(text, k) ==
    IF k > Len(attachments) THEN text
    ELSE WithHostedLinks(IF uploads[k] = "ok" /\ Truthy(attachments[k].cid)
                         THEN ReplaceReferenceFrom(text, attachments[k].cid, ImageUrl(k), 1)
                         ELSE text,
                         k + 1)

\* C16. In the published issue body every reference cid:C to an image that
\* was uploaded is replaced by the hosted link of that image, and a reference
\* to another content id, also to one that starts with C, is left as it is.
C16_CidSubstitution ==
    \A p \in 1..Len(published) :
       published[p].kind = "issue" =>
         StartsWith(published[p].body, WithHostedLinks(body, 1))

\* The file name the filename policy gives a part: the declared file name,
\* else the content id, else the literal "attachment".
PolicyName(a) ==
    IF Truthy(a.filename) THEN a.filename
    ELSE IF Truthy(a.contentId) THEN a.contentId
    ELSE kAttachment

\* C17. Filename policy: the file name of every emitted attachment is the
\* declared file name of its part if it has one, else the content id of the
\* part, else the literal "attachment", and it is not sanitized by the decoder.
C17_FilenamePolicy ==
    pc = "check" /\ ~email.threw =>
      \A k \in 1..Len(attachments) :
         attachments[k].filename = PolicyName(SelectSeq(email.attachments, ImagePart)[k])

\* The attachments whose upload gave a link, as indices, in list order.
Hosted == SelectSeq([k \in 1..Len(uploads) |-> k], LAMBDA k : uploads[k] = "ok")

\* The lines "- file name: link" of the attachments ks.
RECURSIVE LinkLines(_)
LinkLines(ks) ==
    IF ks = <<>> THEN <<>>
    ELSE <<"\n","-"," ">> \o attachments[ks[1]].filename \o <<":"," ">>
           \o ImageUrl(ks[1]) \o LinkLines(Tail(ks))

\* The description of the embed when the attachments ks are listed.
Listing(ks) ==
    Slice(body \o (IF ks = <<>> THEN <<>> ELSE kAttachmentsList \o LinkLines(ks)),
          DescriptionLimit)

\* C18 as stated: in the Discord render attachments[0] is the preview image
\* and the remaining attachments are listed in order in the description,
\* for every combination of upload results, a failed upload being absent.
C18_FirstAttachmentIsPreview ==
    \A p \in 1..Len(published) :
       published[p].kind = "webhook" =>
         /\ published[p].image = IF uploads # <<>> /\ uploads[1] = "ok"
                                 THEN ImageUrl(1) ELSE Undefined
         /\ published[p].description =
              Listing(SelectSeq(Hosted, LAMBDA k : k > 1))

\* C18, amended. In the Discord render the first attachment whose upload
\* succeeded is the preview image (attachments[0] when its upload
\* succeeded), and the other attachments whose upload succeeded are listed
\* in order in the description; a failed upload is absent from both.
C18_FirstHostedIsPreview ==
    \A p \in 1..Len(published) :
       published[p].kind = "webhook" =>
         /\ published[p].image = IF Hosted = <<>> THEN Undefined
                                 ELSE ImageUrl(Hosted[1])
         /\ published[p].description =
              Listing(IF Hosted = <<>> THEN <<>> ELSE Tail(Hosted))

\* A webhook was posted for three images of which the first failed to upload.
C18_Witness ==
    /\ published # <<>> /\ published[1].kind = "webhook"
    /\ uploads = <<"null", "ok", "ok">>

\* What only createIssue does: the sender lookups and the issue request.
GitHubEndpoints ==
    {"GET /users/{username}", "GET /orgs/{org}/members",
     "GET /repos/{owner}/{repo}/collaborators", "POST /repos/{owner}/{repo}/issues"}

\* The handler has done nothing that belongs to the GitHub path.
NoGitHubPath ==
    /\ RequestsTo(GitHubEndpoints) = {}
    /\ \A p \in 1..Len(published) : published[p].kind # "issue"
    /\ outcome \notin {"MissingEnvVariablesError", "CreateIssueError"}
    /\ githubUser = Null

\* The handler has done nothing that belongs to the Discord path.
NoDiscordPath ==
    /\ RequestsTo({"POST webhook"}) = {}
    /\ \A p \in 1..Len(published) : published[p].kind # "webhook"
    /\ outcome \notin {"MissingDiscordEnvVariablesError", "Error"}

\* C19. The handler takes the Discord path if and only if TYPE, lowercased,
\* is discord, and the GitHub path for an unset TYPE and for any other value;
\* exactly one of the two paths runs for an email, which is published at most
\* once: a handled email that was not skipped gives one webhook post on the
\* Discord path and one issue on the GitHub path, never both.
C19_ModeDispatch ==
    pc # "start" =>
      /\ DiscordType(env) => NoGitHubPath
      /\ ~DiscordType(env) => NoDiscordPath
      /\ Len(published) <= 1
      /\ pc = "done" /\ outcome = "resolved" /\ ~skipped =>
            /\ Len(published) = 1
            /\ published[1].kind = IF DiscordType(env) THEN "webhook" ELSE "issue"
            /\ Cardinality(RequestsTo(PublishEndpoints)) = 1

\* TYPE in capitals with the GitHub variables set as well: a webhook post.
C19_Witness ==
    /\ env.TYPE = vDiscord /\ env.GITHUB_USERNAME = vOwner
    /\ env.GITHUB_REPO = vRepo /\ env.GITHUB_TOKEN = vToken
    /\ pc = "done" /\ outcome = "resolved"
    /\ Len(published) = 1 /\ published[1].kind = "webhook"

\* The positions of findGitHubUserByEmail and of createIssue after it.
LookupPcs == {"owner", "members", "member", "collabs", "collab"}

\* The issue payload p ends with the attribution line for some account.
Attributed(p) ==
    /\ Len(p.labels) = 2 /\ p.labels[2] = kLabelMember
    /\ \E at \in 1..Len(p.body) :
          /\ StartsWithAt(p.body, kAttributionOpen, at)
          /\ p.body[Len(p.body)] = "*"
          /\ StartsWithAt(p.body, <<" ","(">> \o senderEmail \o <<")","*">>,
                          Len(p.body) - Len(senderEmail) - 3)

\* The issue payload p has neither the attribution line nor the member label.
Unattributed(p) ==
    /\ p.labels = <<kLabelEmail>>
    /\ ~Includes(p.body, kAttributionOpen)

\* findGitHubUserByEmail does not throw, and after a failed lookup request
\* the issue request is still sent, once.
LookupNeverThrows ==
    /\ pc \in LookupPcs \cup {"upload", "await", "publish"} => outcome = "pending"
    /\ pc = "done" /\ "lookup" \in failed =>
          /\ Len(published) = 1 /\ published[1].kind = "issue"
          /\ Cardinality(RequestsTo({"POST /repos/{owner}/{repo}/issues"})) = 1
          /\ outcome = "resolved" \/ "issue" \in failed

WholeText == rawEmailContent \o Decode(<<>>, decoder \o Concat(stream), TRUE).text

\* parseEmailContent is at work, or has returned to a caller that goes on.
Parsing == pc \in {"scan", "cleanup", "attach", "check"}

\* C21. The raw stream is drained before the decoder runs: parseEmailContent
\* is entered once, from the read loop, only when the reader has reported
\* done, and its input is the text of all chunks in order; no step of the
\* read loop loses or reorders text, and no partial read is parsed.
C21_StreamDrained ==
    /\ [](Parsing => stream = <<>> /\ decoder = <<>>
                       /\ lines = SplitLines(rawEmailContent))
    /\ [](pc \in {"start", "read"} => lines = <<>> /\ i = 1 /\ scan = ScanInit)
    /\ [][/\ WholeText' = WholeText
          /\ pc' = "scan" /\ pc # "scan"
               => pc = "read" /\ stream = <<>> /\ rawEmailContent' = WholeText
          /\ pc \notin {"start", "read"} => pc' \notin {"start", "read"}
          /\ pc \notin {"start", "read", "scan"} => pc' # "scan"]_vars

\* The parser is at work on a text in which a split two-byte character was
\* put together and a truncated one replaced.
C21_Witness ==
    /\ pc = "scan" /\ i > 1 /\ stream = <<>>
    /\ rawEmailContent \in {Decode(<<>>, mbAccents, TRUE).text,
                            Decode(<<>>, mbTruncated, TRUE).text}
    /\ Includes(rawEmailContent, <<"c","a","f">>)

\* C22. parseEmailContent has no error state: on every text, and for every
\* answer of the attachment parser (a rejected parse and an image that does
\* not decode included), it never rejects, and it terminates: it comes to its
\* return with a ParsedEmail record.
C22_NoErrorState ==
    /\ [](pc \in {"scan", "cleanup", "attach", "check"} /\ outcome = "pending")
    /\ [](pc = "scan" => i <= Len(lines) + 1)
    /\ <>[](pc = "check" /\ i = Len(lines) + 1)

\* parseEmailContent has returned after the parse of postal-mime rejected.
C22_Witness ==
    /\ pc = "check" /\ outcome = "pending" /\ email.threw
    /\ attachments = <<>> /\ subject # <<>>

\* The commands the wizard has run, and the keys of the first n of them.
Commands == wizard.commands
KeysOf(n) == [k \in 1..n |-> Commands[k].key]

\* The user typed a mode that is discord in some letter case.
DiscordTyped == ToLowerCase(wizard.typed) = kDiscord

\* The user's answer to "Proceed?" begins with y or Y.
Confirmed == wizard.proceed # <<>> /\ wizard.proceed[1] \in {"y", "Y"}

\* The secrets of the selected mode: TYPE first, then the mode's values.
ModeSecrets ==
    IF DiscordTyped
    THEN IF wizard.roleId = <<>>
         THEN <<"TYPE", "DISCORD_WEBHOOK_URL">>
         ELSE <<"TYPE", "DISCORD_WEBHOOK_URL", "DISCORD_MENTION_ROLE_ID">>
    ELSE <<"TYPE", "GITHUB_USERNAME", "GITHUB_REPO", "GITHUB_TOKEN">>

Lookups ==
    SelectSeq(requests,
              LAMBDA r : r.req \in GitHubEndpoints \ {"POST /repos/{owner}/{repo}/issues"})

IsOwnerRequest(r) == r.req = "GET /users/{username}" /\ r.arg = env.GITHUB_USERNAME
IsMembersRequest(r) == r.req = "GET /orgs/{org}/members"
IsCollaboratorsRequest(r) == r.req = "GET /repos/{owner}/{repo}/collaborators"

\* C24. The sender lookup asks for the repository owner first, then for the
\* organization members only when the owner is an Organization, then for the
\* repository collaborators; the first match wins: the matching login is the
\* result and no request follows the matching one. With an empty sender
\* address no request is issued and the result is no match.
C24_LookupOrder ==
    LET L == Lookups
    IN  /\ senderEmail = <<>> => L = <<>> /\ githubUser = Null
        /\ L # <<>> => IsOwnerRequest(L[1])
        /\ \A k \in 2..Len(L) :
              /\ ~IsOwnerRequest(L[k])
              /\ IsMembersRequest(L[k]) => k = 2 /\ L[1].answer = "Organization"
              /\ L[1].answer = "Organization" => IsMembersRequest(L[2])
              /\ IsCollaboratorsRequest(L[k]) =>
                    /\ L[1].answer \in {"User", "Organization"}
                    /\ \A j \in 2..(k - 1) : ~IsCollaboratorsRequest(L[j])
              /\ IsCollaboratorsRequest(L[k - 1]) => ~IsMembersRequest(L[k])
              /\ L[1].answer \in {"throws", "match"} => FALSE
        /\ \A k \in 1..Len(L) :
              L[k].answer = "match" => k = Len(L) /\ githubUser = L[k].arg
        /\ githubUser # Null => L # <<>> /\ L[Len(L)].answer = "match"

\* A member of the organization matched: the collaborators were not asked.
C24_Witness ==
    /\ pc = "done" /\ Len(Lookups) = 3
    /\ Lookups[1].answer = "Organization" /\ IsMembersRequest(Lookups[2])
    /\ Lookups[3].answer = "match" /\ githubUser = Lookups[3].arg
    /\ published # <<>>

\* The lines "![file name](link)" and an empty line for the attachments ks.
RECURSIVE ImageLines(_)
ImageLines(ks) ==
    IF ks = <<>> THEN <<>>
    ELSE <<"!","[">> \o attachments[ks[1]].filename \o <<"]","(">>
           \o ImageUrl(ks[1]) \o <<")","\n","\n">> \o ImageLines(Tail(ks))

\* How often the text shows the link of attachment k as an image.
ShownTimes(text, k) ==
    Cardinality({q \in 1..Len(text) :
                   StartsWithAt(text, <<"]","(">> \o ImageUrl(k) \o <<")">>, q)})

\* C25. The Attachments section of an issue lists the images in the order of
\* the decoder's attachment list, whatever the order in which the uploads
\* completed: every image whose upload succeeded once, a failed one not at
\* all.
C25_OrderOfTheList ==
    \A p \in 1..Len(published) :
       published[p].kind = "issue" =>
         /\ IF Hosted = <<>>
            THEN ~Includes(published[p].body, kAttachmentsHeading)
            ELSE Includes(published[p].body, kAttachmentsHeading \o ImageLines(Hosted))
         /\ \A k \in 1..Len(attachments) :
               ShownTimes(published[p].body, k) = IF uploads[k] = "ok" THEN 1 ELSE 0

\* An issue with two images of which the second was uploaded first.
C25_Witness ==
    /\ published # <<>> /\ published[1].kind = "issue"
    /\ uploads = <<"ok", "ok">> /\ settled = <<2, 1>>

UploadEndpoint == "POST https://api.imgur.com/3/image"

\* C26. The publish request, to the issue tracker or to the webhook, is sent
\* only when every upload started for the email has settled: it follows all
\* upload requests and no upload is in flight from then on; and the sender
\* lookup is over before the first upload starts.
C26_PublishAfterUploads ==
    /\ \A p \in RequestsTo(PublishEndpoints) :
          /\ \A u \in RequestsTo({UploadEndpoint}) : u < p
          /\ Len(uploads) = Len(attachments)
          /\ Cardinality(RequestsTo({UploadEndpoint})) = Len(attachments)
          /\ \A k \in 1..Len(uploads) : uploads[k] \in {"ok", "null"}
          /\ Len(settled) = Len(uploads)
          /\ \A k \in 1..Len(uploads) : \E j \in 1..Len(settled) : settled[j] = k
    /\ published # <<>> => RequestsTo(PublishEndpoints) # {}
    /\ \A u \in RequestsTo({UploadEndpoint}) :
          \A q \in 1..Len(requests) :
             requests[q].req \in GitHubEndpoints \ {"POST /repos/{owner}/{repo}/issues"}
               => q < u
    /\ uploads # <<>> \/ settled # <<>> => pc \notin LookupPcs \cup {"upload"}

\* An issue was published after a lookup of two requests and two uploads.
C26_Witness ==
    /\ pc = "done" /\ published # <<>> /\ published[1].kind = "issue"
    /\ Len(Lookups) = 2 /\ Len(settled) = 2

\* The four states of the scanner.
InHeader(st) == st.headerSection
Searching(st) == ~st.headerSection /\ ~st.inTextPlain /\ ~st.inTextHtml
InPlain(st) == ~st.headerSection /\ st.inTextPlain /\ ~st.inTextHtml
InHtml(st) == ~st.headerSection /\ ~st.inTextPlain /\ st.inTextHtml

\* The scanner is in exactly one of its states, with content-start set only
\* inside a part and nothing collected while in the header.
OneScannerState ==
    /\ Cardinality({q \in {"header", "searching", "plain", "html"} :
          \/ q = "header" /\ InHeader(scan) /\ ~scan.inTextPlain /\ ~scan.inTextHtml
          \/ q = "searching" /\ Searching(scan)
          \/ q = "plain" /\ InPlain(scan)
          \/ q = "html" /\ InHtml(scan)}) = 1
    /\ scan.foundContentStart => InPlain(scan) \/ InHtml(scan)
    /\ InHeader(scan) => scan.textPlainLines = <<>> /\ scan.textHtmlLines = <<>>

\* A line of the loop is being read, and it is line.
Reads(line) == pc = "scan" /\ i <= Len(lines) /\ i' = i + 1 /\ lines[i] = line

\* What holds of every iteration of the loop but the boundary lines: the
\* header is not entered again, and a bucket grows only by the line read, in
\* its own state, with content-start set.
BucketLaw ==
    /\ ~InHeader(scan) => ~InHeader(scan')
    /\ scan'.textPlainLines # scan.textPlainLines =>
          /\ InPlain(scan) /\ scan.foundContentStart /\ pc = "scan" /\ i <= Len(lines)
          /\ scan'.textPlainLines = Append(scan.textPlainLines, lines[i])
    /\ scan'.textHtmlLines # scan.textHtmlLines =>
          /\ InHtml(scan) /\ scan.foundContentStart /\ pc = "scan" /\ i <= Len(lines)
          /\ scan'.textHtmlLines = Append(scan.textHtmlLines, lines[i])

\* A line that starts with two dashes.
DashLine(line) == Len(line) >= 2 /\ line[1] = "-" /\ line[2] = "-"

\* A line holding the text of a text/plain or text/html Content-Type.
TextTypeLine(line) == Includes(line, lPlainType) \/ Includes(line, lHtmlType)

\* C27 as stated: the scanner is always in exactly one of HEADER, searching,
\* in-plain and in-html, HEADER is not entered again, content-start is set
\* only inside a part, a bucket grows only in its state with content-start
\* set, and every boundary line resets the scanner to searching.
C27_EveryBoundaryResets ==
    /\ []OneScannerState
    /\ [][/\ BucketLaw
          /\ \A k \in 1..Len(lines) :
                Reads(lines[k]) /\ i = k /\ DashLine(lines[k]) =>
                   Searching(scan') /\ ~scan'.foundContentStart]_vars

\* C27, amended. As stated, but a line starting with two dashes resets the
\* scanner to searching only when it is read after HEADER was left and does
\* not hold the text of a text/plain or text/html Content-Type: in HEADER it
\* is one more header line, and with such a text it opens a part.
C27_BodyBoundaryResets ==
    /\ []OneScannerState
    /\ [][/\ BucketLaw
          /\ \A k \in 1..Len(lines) :
                Reads(lines[k]) /\ i = k /\ DashLine(lines[k]) =>
                   IF InHeader(scan)
                   THEN InHeader(scan')
                          /\ scan'.headers = scan.headers \o lines[k] \o <<"\n">>
                   ELSE IF TextTypeLine(lines[k])
                   THEN ~Searching(scan') /\ ~scan'.foundContentStart
                   ELSE /\ Searching(scan') /\ ~scan'.foundContentStart
                        /\ scan'.textPlainLines = scan.textPlainLines
                        /\ scan'.textHtmlLines = scan.textHtmlLines]_vars

\* A boundary line has just reset the scanner, which was in a plain part
\* with content-start set.
C27_Witness ==
    /\ pc = "scan" /\ i = 6 /\ Len(lines) = 5
    /\ lines[3] = lPlainType /\ lines[4] = lBlank /\ lines[5] = lBoundary
    /\ Searching(scan) /\ ~scan.foundContentStart

\* The lines of the first part of a message: those after the first blank
\* line that follows the first boundary line, up to the next line starting
\* with the boundary delimiter.
PartContent(ls) ==
    LET opens == {k \in 1..Len(ls) : StartsWith(ls[k], lBoundary)}
        first == Least(opens)
        blanks == {k \in (first + 1)..Len(ls) : IsBlank(ls[k])}
        start == Least(blanks) + 1
        ends == {k \in start..Len(ls) : StartsWith(ls[k], lBoundary)}
    IN  IF opens = {} \/ blanks = {} \/ ends = {} THEN <<>>
        ELSE SubSeq(ls, start, Least(ends) - 1)

\* The bucket of the one text part.
PartBucket ==
    IF scan.textPlainLines # <<>> THEN scan.textPlainLines ELSE scan.textHtmlLines

\* C28. A part ends only at a line with the declared boundary delimiter:
\* every non-blank line between the blank line that ends the part's headers
\* and the next boundary line is in the part's bucket, in order, also after
\* a content line that merely starts with two dashes.
C28_PartEndsAtBoundary ==
    pc = "cleanup" =>
      NonBlankLines(PartBucket) = NonBlankLines(PartContent(lines))

\* The rows of the mapping table for elements and for character references,
\* in the order of the table.
PairRows ==
    << <<<<"b">>, kStarStar>>, <<<<"s","t","r","o","n","g">>, kStarStar>>,
       <<<<"i">>, kStar>>, <<<<"e","m">>, kStar>> >>

ReferenceRows ==
    << <<kNbsp, <<" ">>>>, <<kAmp, <<"&">>>>, <<kLt, <<"<">>>>, <<kGt, <<">">>>>,
       <<kQuot, <<"\"">>>>, <<kApos, <<"'">>>>, <<kQpNbsp, <<" ">>>> >>

\* The mapping table applied once, left to right, from position a of h: the
\* construct that starts at a position is rewritten by the one row whose
\* construct it is, the text a row produces is not read again, and the
\* scan goes on behind the construct. An element is an opening tag with
\* exactly the tag name of the row, the text up to its closing tag on the
\* same line (itself mapped once), and the closing tag.
RECURSIVE TableOnceFrom(_, _)
TableOnceFrom(h, a) ==
    LET Named(tag, j) ==
            /\ StartsWithAtI(h, <<"<">> \o tag, j)
            /\ j + Len(tag) + 1 <= Len(h)
            /\ h[j + Len(tag) + 1] \in WS \cup {">"}
        Gt(j) == RunEndNot(h, j + 1, {">"})
        Ends(tag) == {m \in (Gt(a) + 1)..RunEndNot(h, Gt(a) + 1, LT) :
                         StartsWithAtI(h, <<"<","/">> \o tag \o <<">">>, m)}
        pairs == {r \in 1..Len(PairRows) :
                     Named(PairRows[r][1], a) /\ Gt(a) <= Len(h) /\ Ends(PairRows[r][1]) # {}}
        refs == {r \in 1..Len(ReferenceRows) : StartsWithAt(h, ReferenceRows[r][1], a)}
        brEnd == LET w == RunEnd(h, a + 3, WS)
                     g == IF w <= Len(h) /\ h[w] = "/" THEN w + 1 ELSE w
                 IN  IF StartsWithAtI(h, <<"<","b","r">>, a) /\ g <= Len(h) /\ h[g] = ">"
                     THEN g + 1 ELSE 0
    IN  IF a > Len(h) THEN <<>>
        ELSE IF pairs # {} THEN
            LET row == PairRows[Least(pairs)]
                e == Least(Ends(row[1]))
            IN  row[2] \o TableOnceFrom(SubSeq(h, 1, e - 1), Gt(a) + 1) \o row[2]
                  \o TableOnceFrom(h, e + Len(row[1]) + 3)
        ELSE IF brEnd # 0 THEN kNewline \o TableOnceFrom(h, brEnd)
        ELSE IF Named(<<"p">>, a) /\ Gt(a) <= Len(h) THEN
            kNewline \o TableOnceFrom(h, Gt(a) + 1)
        ELSE IF StartsWithAtI(h, <<"<","/","p",">">>, a) THEN
            kNewline \o TableOnceFrom(h, a + 4)
        ELSE IF h[a] = "<" /\ Gt(a) > a + 1 /\ Gt(a) <= Len(h) THEN
            TableOnceFrom(h, Gt(a) + 1)
        ELSE IF refs # {} THEN
            LET row == ReferenceRows[Least(refs)]
            IN  row[2] \o TableOnceFrom(h, a + Len(row[1]))
        ELSE <<h[a]>> \o TableOnceFrom(h, a + 1)

\* C29. The mapping table is applied once and without overlap: the body of
\* an HTML-only message is its HTML part with each construct rewritten by at
\* most one row and no text a row produced rewritten by a later row, then
\* the blank lines collapsed and the text trimmed.
C29_TableAppliedOnce ==
    pc = "cleanup" /\ HtmlOnly =>
      body = Trim(CollapseBlankLinesFrom(
                    TableOnceFrom(Trim(JoinLines(scan.textHtmlLines)), 1), 1))

\* The labels of the issue payload p, as a set.
LabelsOf(p) == {p.labels[k] : k \in 1..Len(p.labels)}

\* The body of the issue payload p ends with the attribution footer for the
\* user the lookup returned and the sender address.
HasFooter(p) ==
    LET footer == kAttributionOpen \o githubUser \o <<" ","(">> \o senderEmail
                    \o <<")","*">>
    IN  /\ githubUser # Null
        /\ Len(p.body) >= Len(footer)
        /\ SubSeq(p.body, Len(p.body) - Len(footer) + 1, Len(p.body)) = footer

\* C30. Every created issue has the label email-to-issue; it has the label
\* member-email exactly when the sender lookup returned a user, and exactly
\* then its body ends with the attribution footer: the label and the footer
\* are never present one without the other.
C30_LabelIffAttribution ==
    \A p \in 1..Len(published) :
        published[p].kind = "issue" =>
          /\ kLabelEmail \in LabelsOf(published[p])
          /\ LabelsOf(published[p]) \subseteq {kLabelEmail, kLabelMember}
          /\ kLabelMember \in LabelsOf(published[p]) <=> githubUser # Null
          /\ HasFooter(published[p]) <=> githubUser # Null
          /\ githubUser = Null => ~Includes(published[p].body, kAttributionOpen)

\* An issue was created for a sender the lookup found: it has both labels
\* and the footer.
C30_Witness ==
    /\ Len(published) = 1 /\ published[1].kind = "issue"
    /\ githubUser # Null /\ senderEmail # <<>>
    /\ published[1].labels = <<kLabelEmail, kLabelMember>>
    /\ HasFooter(published[1])
=============================================================================
